---------------------------- MODULE Spec2Model ----------------------------
(***************************************************************************)
(* A model of mcircuit.py (lcapy): s-domain one-port and two-port network  *)
(* algebra and the rational-function analysis (residues, partfrac).        *)
(*                                                                         *)
(* Values.  Every s-domain quantity of the program is a sympy expression,  *)
(* which cancel() of _Val.__init__ brings to a ratio of coprime            *)
(* polynomials in s.  The model keeps a ratio n/d of polynomials with      *)
(* integer coefficients without cancelling it, and compares two ratios by  *)
(* cross-multiplication (EEq), which is equality of the cancelled forms.   *)
(* A zero denominator stands for sympy's two non-finite results of a       *)
(* division by zero: zoo (x/0, x # 0) and nan (0/0).                      *)
(***************************************************************************)
EXTENDS Integers, Sequences, FiniteSets, TLC

VARIABLES
    opA, opB, opPc, opRes, opWarn,  \* one-port bench: operands, step, result, warnings
    mxM, mxCur, mxPath, mxWarn,     \* matrix bench: original, current, accessors applied, warnings
    mxN,                            \* matrix bench: the matrix chained on, if any
    chP, chL, chR,                  \* chain bench: the three two-ports, the two groupings
    tpP, tpM, tpPc, tpOut, tpWarn,  \* two-port bench: network, model in hand, call, result, warnings
    pfExpr, pfPc, pfOut,            \* rational-function bench: expression, step, result
    store, st0, stPrev, stPc, stOut \* object bench: the objects, those built first, those
                                    \* before the last call, the call, what it returned

opVars == <<opA, opB, opPc, opRes, opWarn>>
mxVars == <<mxM, mxCur, mxPath, mxWarn, mxN>>
chVars == <<chP, chL, chR>>
pfVars == <<pfExpr, pfPc, pfOut>>
tpVars == <<tpP, tpM, tpPc, tpOut, tpWarn>>
stVars == <<store, st0, stPrev, stPc, stOut>>
vars == <<opA, opB, opPc, opRes, opWarn, mxM, mxCur, mxPath, mxWarn, mxN, chP, chL, chR, pfExpr, pfPc, pfOut,
          tpP, tpM, tpPc, tpOut, tpWarn, store, st0, stPrev, stPc, stOut>>

\* The value a bench holds while another bench runs.
Idle == "idle"

---------------------------------------------------------------------------
(* Polynomials in s with integer coefficients: the sequence of             *)
(* coefficients, the constant first, the leading coefficient last and      *)
(* non-zero; <<>> is the zero polynomial.                                  *)

RECURSIVE PTrim(_)
PTrim(p) ==
    IF Len(p) = 0 THEN <<>>
    ELSE IF p[Len(p)] = 0 THEN PTrim(SubSeq(p, 1, Len(p) - 1))
    ELSE p

PZero == <<>>
POne == <<1>>
PConst(c) == IF c = 0 THEN <<>> ELSE <<c>>
\* the polynomial s
PVar == <<0, 1>>
PCoef(p, i) == IF i <= Len(p) THEN p[i] ELSE 0
PMaxLen(p, q) == IF Len(p) > Len(q) THEN Len(p) ELSE Len(q)

\* the sequence f[1], ..., f[n], written out
Coefs(f, n) == SubSeq(f, 1, n)

\* F(e), with e computed once: an assignment v = e followed by F(v)
Only(S) == CHOOSE v \in S : TRUE
Let(e, F(_)) == Only({F(v) : v \in {e}})

PAdd(p, q) ==
    PTrim(Coefs([i \in 1..PMaxLen(p, q) |-> PCoef(p, i) + PCoef(q, i)], PMaxLen(p, q)))
PNeg(p) == Coefs([i \in 1..Len(p) |-> -p[i]], Len(p))
PSub(p, q) ==
    PTrim(Coefs([i \in 1..PMaxLen(p, q) |-> PCoef(p, i) - PCoef(q, i)], PMaxLen(p, q)))
PScale(c, p) == IF c = 0 THEN <<>> ELSE Coefs([i \in 1..Len(p) |-> c * p[i]], Len(p))

\* the coefficient of s^(k-1) in p * q: the sum of p[i] * q[k+1-i]
RECURSIVE PConv(_, _, _, _)
PConv(p, q, k, i) ==
    IF i > Len(p) THEN 0
    ELSE (IF k + 1 - i >= 1 /\ k + 1 - i <= Len(q) THEN p[i] * q[k + 1 - i] ELSE 0)
         + PConv(p, q, k, i + 1)

PMul(p, q) ==
    IF Len(p) = 0 \/ Len(q) = 0 THEN <<>>
    ELSE Coefs([k \in 1..(Len(p) + Len(q) - 1) |-> PConv(p, q, k, 1)], Len(p) + Len(q) - 1)

\* Horner evaluation at the integer x
RECURSIVE PEvalFrom(_, _, _, _)
PEvalFrom(p, x, i, acc) ==
    IF i < 1 THEN acc ELSE PEvalFrom(p, x, i - 1, acc * x + p[i])

PEval(p, x) == PEvalFrom(p, x, Len(p), 0)

PDeriv(p) ==
    IF Len(p) <= 1 THEN <<>> ELSE Coefs([i \in 1..(Len(p) - 1) |-> i * p[i + 1]], Len(p) - 1)

---------------------------------------------------------------------------
(* Expressions.  An s-domain value of the program is a sympy expression;   *)
(* _Val.__init__ runs cancel() on it, which changes its form and not its   *)
(* value.  The model keeps the value as a fraction [n, d] of two integer   *)
(* polynomials in s and compares fractions by cross-multiplication (EEq):  *)
(* the equality that the cancelled forms of the program decide.            *)
(* sympy divides by zero without raising: x/0 is zoo (ComplexInfinity) for *)
(* x # 0 and 0/0 is nan; a fraction with d = 0 stands for them (n # 0:     *)
(* zoo, n = 0: nan), and the arithmetic of fractions gives sympy's rules   *)
(* zoo + x = zoo, zoo + zoo = nan, zoo * 0 = nan, 1/zoo = 0, nan absorbs.  *)

Frac(n, d) == [n |-> n, d |-> d]
EPoly(p) == Frac(p, POne)
EInt(i) == EPoly(PConst(i))
ERat(n, d) == Frac(PConst(n), PConst(d))
EZero == EInt(0)
EOne == EInt(1)
\* the symbol s (_Val.s)
ES == EPoly(PVar)

Kind(x) == IF Len(x.d) = 0 THEN (IF Len(x.n) = 0 THEN "nan" ELSE "zoo") ELSE "rf"
IsFinite(x) == Len(x.d) > 0

\* _Val.__eq__ on cancelled values
EEq(x, y) ==
    /\ Kind(x) = Kind(y)
    /\ IsFinite(x) => PMul(x.n, y.d) = PMul(y.n, x.d)

\* x == 0
EIsZero(x) == Len(x.n) = 0 /\ Len(x.d) > 0

\* _Val.__add__ / __radd__
EAdd(x, y) == Frac(PAdd(PMul(x.n, y.d), PMul(y.n, x.d)), PMul(x.d, y.d))

\* _Val.__neg__
ENeg(x) == Frac(PNeg(x.n), x.d)

\* _Val.__sub__ / __rsub__
ESub(x, y) == Frac(PSub(PMul(x.n, y.d), PMul(y.n, x.d)), PMul(x.d, y.d))

\* _Val.__mul__ / __rmul__
EMul(x, y) == Frac(PMul(x.n, y.n), PMul(x.d, y.d))

\* _Val.__truediv__ / __rtruediv__: sympy divides as x * y**-1
EDiv(x, y) == Frac(PMul(x.n, y.d), PMul(x.d, y.n))

\* greatest common divisor of two naturals
RECURSIVE Gcd(_, _)
Gcd(a, b) == IF b = 0 THEN a ELSE Gcd(b, a % b)

Abs(x) == IF x < 0 THEN -x ELSE x

\* the content of p: the gcd of its coefficients (0 for the zero polynomial)
RECURSIVE PContentFrom(_, _, _)
PContentFrom(p, i, acc) ==
    IF i > Len(p) THEN acc ELSE PContentFrom(p, i + 1, Gcd(Abs(p[i]), acc))

PContent(p) == PContentFrom(p, 1, 0)

\* p / c for an integer c that divides every coefficient
PDivInt(p, c) == Coefs([i \in 1..Len(p) |-> p[i] \div c], Len(p))

PPrim(p) == IF Len(p) = 0 THEN p ELSE PDivInt(p, PContent(p))

PLead(p) == p[Len(p)]

\* p * s^k
PShift(p, k) ==
    Coefs([i \in 1..(Len(p) + k) |-> IF i <= k THEN 0 ELSE p[i - k]], Len(p) + k)

\* a with its leading term removed by a multiple of b, for g the gcd of the
\* two leading coefficients
PPRemStep(a, b, g) ==
    PPrim(PSub(PScale(PLead(b) \div g, a),
               PScale(PLead(a) \div g, PShift(b, Len(a) - Len(b)))))

\* a remainder of a by b up to a constant factor (b # 0)
RECURSIVE PPRem(_, _)
PPRem(a, b) ==
    IF Len(a) < Len(b) THEN a
    ELSE PPRem(PPRemStep(a, b, Gcd(Abs(PLead(a)), Abs(PLead(b)))), b)

\* the primitive greatest common divisor of two polynomials (Euclid)
RECURSIVE PGcd(_, _)
PGcd(a, b) == IF Len(b) = 0 THEN PPrim(a) ELSE PGcd(b, PPRem(a, b))

\* the quotient a / b for a divisor b of a
RECURSIVE PQuo(_, _)
PQuo(a, b) ==
    IF Len(a) < Len(b) THEN PZero
    ELSE PAdd(PShift(<<PLead(a) \div PLead(b)>>, Len(a) - Len(b)),
              PQuo(PSub(a, PScale(PLead(a) \div PLead(b), PShift(b, Len(a) - Len(b)))), b))

\* n/d with the sign of the leading coefficient of d made positive
ESign(n, d) == IF PLead(d) < 0 THEN Frac(PNeg(n), PNeg(d)) ELSE Frac(n, d)

\* n/d with the common integer factor of n and d removed
EContent(n, d) == ESign(PDivInt(n, Gcd(PContent(n), PContent(d))),
                        PDivInt(d, Gcd(PContent(n), PContent(d))))

\* n/d with the common polynomial factor g removed
ECancelBy(n, d, g) == EContent(PQuo(n, g), PQuo(d, g))

\* cancel(): the ratio in lowest terms; zoo and nan are single values
ECancel(x) ==
    IF Len(x.d) = 0 THEN Frac(IF Len(x.n) = 0 THEN PZero ELSE POne, PZero)
    ELSE IF Len(x.n) = 0 THEN EZero
    ELSE ECancelBy(x.n, x.d, PGcd(PPrim(x.n), PPrim(x.d)))

\* _Val.integrate: divide by s
Integrate(x) == EDiv(x, ES)

\* _Val.differentiate: multiply by s
Differentiate(x) == EMul(x, ES)

---------------------------------------------------------------------------
(* One-ports.  An object is a record: cls is its Python class; a Thevenin  *)
(* object (R, L, C, V, Thevenin) stores Z and V, a Norton object (G, I,    *)
(* Norton) stores Y and I.  A call that raises returns [err |-> message].  *)

TheveninClasses == {"R", "L", "C", "V", "Thevenin"}
NortonClasses == {"G", "I", "Norton"}

ErrCurrentSeries == "Cannot connect current source in series."
ErrVoltageParallel == "Cannot connect voltage source in parallel."
ErrUnhandled == "Unhandled type"
WarnVNorton == "Converting a voltage source to a Norton network is dodgy..."
WarnIThevenin == "Converting a current source to a Thevenin network is dodgy..."

Raise(msg) == [err |-> msg]
IsErr(r) == "err" \in DOMAIN r
IsPort(r) == "cls" \in DOMAIN r
IsThevenin(p) == IsPort(p) /\ p.cls \in TheveninClasses
IsNorton(p) == IsPort(p) /\ p.cls \in NortonClasses

\* Thevenin.__init__
Thevenin(Zval, Vval) == [cls |-> "Thevenin", Z |-> Zval, V |-> Vval]

\* Norton.__init__
Norton(Yval, Ival) == [cls |-> "Norton", Y |-> Yval, I |-> Ival]

\* R.__init__: Thevenin(_Z.R(Rval)), V defaults to _V(0)
R(Rval) == [cls |-> "R", Z |-> Rval, V |-> EZero]

\* G.__init__: Norton(_Y.G(Gval)), I defaults to _I(0)
G(Gval) == [cls |-> "G", Y |-> Gval, I |-> EZero]

\* L.__init__: Thevenin(_Z.L(Lval), - _V(Lval) * _V(i0))
L(Lval, i0) == [cls |-> "L", Z |-> Differentiate(Lval), V |-> EMul(ENeg(Lval), i0)]

\* C.__init__: Thevenin(_Z.C(Cval), _V(v0).integrate())
C(Cval, v0) == [cls |-> "C", Z |-> Integrate(EDiv(EOne, Cval)), V |-> Integrate(v0)]

\* V.__init__ without the integration of the source value
V_NotIntegrated(Vval) == [cls |-> "V", Z |-> EZero, V |-> Vval]

\* V.__init__: Thevenin(_Z(0), _V(Vval).integrate())
V(Vval) == [cls |-> "V", Z |-> EZero, V |-> Integrate(Vval)]

\* I.__init__: Norton(_Y(0), _I(Ival).integrate())
I(Ival) == [cls |-> "I", Y |-> EZero, I |-> Integrate(Ival)]

\* The attributes Z, V, Y, I of a one-port: stored, or the property of the
\* other form (Norton.Z, Norton.V, Thevenin.Y, Thevenin.I).
OnePort_Z(p) == IF p.cls \in TheveninClasses THEN p.Z ELSE EDiv(EOne, p.Y)
OnePort_V(p) == IF p.cls \in TheveninClasses THEN p.V ELSE EDiv(p.I, p.Y)
OnePort_Y(p) == IF p.cls \in NortonClasses THEN p.Y ELSE EDiv(EOne, p.Z)
OnePort_I(p) == IF p.cls \in NortonClasses THEN p.I ELSE EDiv(p.V, p.Z)

\* Thevenin.norton without the division of V by Z
Thevenin_norton_KeepsV(self) == Norton(OnePort_Y(self), self.V)

\* Thevenin.norton
Thevenin_norton(self) == Norton(OnePort_Y(self), EDiv(self.V, self.Z))

\* V.norton (warns 'dodgy')
V_norton(self) == Norton(EDiv(EOne, EZero), OnePort_I(self))

\* Norton.thevenin
Norton_thevenin(self) == Thevenin(OnePort_Z(self), OnePort_V(self))

\* I.thevenin (warns 'dodgy')
I_thevenin(self) == Thevenin(EDiv(EOne, EZero), OnePort_V(self))

\* x.norton() by the class of x
norton(x) ==
    CASE x.cls = "V" -> V_norton(x)
      [] x.cls = "I" -> Norton(EZero, x.I)
      [] x.cls \in {"G", "Norton"} -> x
      [] OTHER -> Thevenin_norton(x)

\* x.thevenin() by the class of x
thevenin(x) ==
    CASE x.cls = "I" -> I_thevenin(x)
      [] x.cls = "V" -> Thevenin(EZero, x.V)
      [] x.cls \in {"G", "Norton"} -> Norton_thevenin(x)
      [] OTHER -> x

\* warn() calls of x.norton(): only V.norton warns
norton_warns(x) == IF x.cls = "V" THEN {WarnVNorton} ELSE {}

\* warn() calls of x.thevenin(): only I.thevenin warns
thevenin_warns(x) == IF x.cls = "I" THEN {WarnIThevenin} ELSE {}

\* isinstance(x, (C, G, L, R, V, Thevenin))
IsCGLRVThevenin(x) == x.cls \in {"C", "G", "L", "R", "V", "Thevenin"}

\* isinstance(x, (I, Norton)); G is a Norton too, but the first test takes it
IsINorton(x) == x.cls \in NortonClasses

\* Thevenin.series
Thevenin_series(self, x) ==
    IF IsCGLRVThevenin(x)
    THEN Thevenin(EAdd(self.Z, OnePort_Z(x)), EAdd(self.V, OnePort_V(x)))
    ELSE IF IsINorton(x)
    THEN IF EIsZero(OnePort_Y(x))
         THEN Raise(ErrCurrentSeries)
         ELSE LET y == thevenin(x)
              IN  Thevenin(EAdd(self.Z, y.Z), EAdd(self.V, y.V))
    ELSE Raise(ErrUnhandled)

\* Norton.parallel without the source of the right operand
Norton_parallel_DropsSource(self, x) ==
    IF IsCGLRVThevenin(x)
    THEN IF EIsZero(OnePort_Z(x))
         THEN Raise(ErrVoltageParallel)
         ELSE Norton(EAdd(self.Y, norton(x).Y), self.I)
    ELSE IF IsINorton(x)
    THEN Norton(EAdd(self.Y, x.Y), self.I)
    ELSE Raise(ErrUnhandled)

\* Norton.parallel
Norton_parallel(self, x) ==
    IF IsCGLRVThevenin(x)
    THEN IF EIsZero(OnePort_Z(x))
         THEN Raise(ErrVoltageParallel)
         ELSE LET y == norton(x)
              IN  Norton(EAdd(self.Y, y.Y), EAdd(self.I, y.I))
    ELSE IF IsINorton(x)
    THEN Norton(EAdd(self.Y, x.Y), EAdd(self.I, x.I))
    ELSE Raise(ErrUnhandled)

\* Norton.series: self.thevenin().series(x).norton()
Norton_series(self, x) ==
    LET r == Thevenin_series(thevenin(self), x)
    IN  IF IsErr(r) THEN r ELSE norton(r)

\* Thevenin.parallel: self.norton().parallel(x).thevenin()
Thevenin_parallel(self, x) ==
    LET r == Norton_parallel(norton(self), x)
    IN  IF IsErr(r) THEN r ELSE thevenin(r)

\* V.series
V_series(self, x) ==
    IF x.cls = "V" THEN V(EAdd(self.V, x.V)) ELSE Thevenin_series(self, x)

\* V.parallel
V_parallel(self, x) == Raise(ErrVoltageParallel)

\* I.parallel
I_parallel(self, x) ==
    IF x.cls = "I" THEN I(EAdd(self.I, x.I)) ELSE Norton_parallel(self, x)

\* I.series
I_series(self, x) == Raise(ErrCurrentSeries)

\* a.series(x), a + x: the method of a's class
series(a, x) ==
    CASE a.cls = "V" -> V_series(a, x)
      [] a.cls = "I" -> I_series(a, x)
      [] a.cls \in {"G", "Norton"} -> Norton_series(a, x)
      [] OTHER -> Thevenin_series(a, x)

\* a.parallel(x), a | x: the method of a's class
parallel(a, x) ==
    CASE a.cls = "V" -> V_parallel(a, x)
      [] a.cls = "I" -> I_parallel(a, x)
      [] a.cls \in {"G", "Norton"} -> Norton_parallel(a, x)
      [] OTHER -> Thevenin_parallel(a, x)

---------------------------------------------------------------------------
(* The one-port bench: an object is built, then methods are called on it.  *)
(* opA is the object built, opB the argument of the series or parallel     *)
(* call, opPc the names of the methods called so far and opRes what the    *)
(* last call returned (an object or an error).                             *)

\* Component values are the integers -1 .. MaxVal.
MaxVal == 2
\* Methods called on one object in one run of the bench.
MaxCalls == 2

CompVals == (-1)..MaxVal
PosVals == 1..MaxVal

\* The one-ports of the scenario of test(): mR = R(2), mV = V(5), mI = I(20)
mR == R(EInt(2))
mV == V(EInt(5))
mI == I(EInt(20))

Ports ==
    {R(EInt(r)) : r \in CompVals}
    \cup {G(EInt(g)) : g \in PosVals}
    \cup {L(EInt(1), EInt(i0)) : i0 \in 0..1}
    \cup {C(EInt(1), EInt(v0)) : v0 \in 0..1}
    \cup {V(EInt(v)) : v \in CompVals}
    \cup {I(EInt(i)) : i \in CompVals}
    \cup {Thevenin(EInt(z), EInt(v)) : z \in 0..MaxVal, v \in 0..1}
    \cup {Norton(EInt(y), EInt(i)) : y \in 0..MaxVal, i \in 0..1}
    \cup {mR, mV, mI}

NoPort == [cls |-> "none"]

MxIdle == mxM = Idle /\ mxCur = Idle /\ mxPath = Idle /\ mxWarn = Idle /\ mxN = Idle
ChIdle == chP = Idle /\ chL = Idle /\ chR = Idle
PfIdle == pfExpr = Idle /\ pfPc = Idle /\ pfOut = Idle
TpIdle == tpP = Idle /\ tpM = Idle /\ tpPc = Idle /\ tpOut = Idle /\ tpWarn = Idle
StIdle == store = Idle /\ st0 = Idle /\ stPrev = Idle /\ stPc = Idle /\ stOut = Idle
OpIdle == opA = Idle /\ opB = Idle /\ opPc = Idle /\ opRes = Idle /\ opWarn = Idle

InitOnePort ==
    /\ opA \in Ports
    /\ opB = NoPort
    /\ opPc = <<>>
    /\ opRes = opA
    /\ opWarn = {}
    /\ MxIdle /\ ChIdle /\ PfIdle /\ TpIdle /\ StIdle

\* opA.series(x), opA + x
Series ==
    /\ opPc = <<>>
    /\ \E x \in Ports :
          /\ opB' = x
          /\ opRes' = series(opA, x)
    /\ opPc' = <<"series">>
    /\ UNCHANGED <<opA, opWarn, mxVars, chVars, pfVars, tpVars, stVars>>

\* opA.parallel(x), opA | x
Parallel ==
    /\ opPc = <<>>
    /\ \E x \in Ports :
          /\ opB' = x
          /\ opRes' = parallel(opA, x)
    /\ opPc' = <<"parallel">>
    /\ UNCHANGED <<opA, opWarn, mxVars, chVars, pfVars, tpVars, stVars>>

\* .norton() on the object in hand
ToNorton ==
    /\ Len(opPc) < MaxCalls
    /\ IsPort(opRes)
    /\ opRes' = norton(opRes)
    /\ opWarn' = opWarn \cup norton_warns(opRes)
    /\ opPc' = Append(opPc, "norton")
    /\ UNCHANGED <<opA, opB, mxVars, chVars, pfVars, tpVars, stVars>>

\* .thevenin() on the object in hand
ToThevenin ==
    /\ Len(opPc) < MaxCalls
    /\ IsPort(opRes)
    /\ opRes' = thevenin(opRes)
    /\ opWarn' = opWarn \cup thevenin_warns(opRes)
    /\ opPc' = Append(opPc, "thevenin")
    /\ UNCHANGED <<opA, opB, mxVars, chVars, pfVars, tpVars, stVars>>

NextOnePort == Series \/ Parallel \/ ToNorton \/ ToThevenin

SpecOnePort == InitOnePort /\ [][NextOnePort]_vars

---------------------------------------------------------------------------
(* Claims about one-ports, checked under SpecOnePort.                      *)

SameValue(x, y) == EEq(x, y)

\* The operand is a pure ideal current source in Norton form: an I, or a
\* generic Norton with Y = 0.
IsCurrentSource(p) == p.cls \in {"I", "Norton"} /\ EIsZero(p.Y)

\* The operand is a pure ideal voltage source in Thevenin form: a V, or a
\* generic Thevenin with Z = 0.
IsVoltageSource(p) == p.cls \in {"V", "Thevenin"} /\ EIsZero(p.Z)

(* C4: for every Thevenin one-port (Z, V) with Z # 0, converting it to its *)
(* Norton form and back to the Thevenin form returns a Thevenin one-port   *)
(* with the same Z and the same V.                                         *)
C4_RoundTrip ==
    (opPc = <<"norton", "thevenin">> /\ IsThevenin(opA) /\ ~EIsZero(opA.Z))
        => /\ IsThevenin(opRes)
           /\ SameValue(opRes.Z, opA.Z)
           /\ SameValue(opRes.V, opA.V)

C4_Witness ==
    /\ opPc = <<"norton", "thevenin">>
    /\ opA = Thevenin(EInt(2), EInt(1))
    /\ SameValue(opRes.Z, EInt(2))
    /\ SameValue(opRes.V, EInt(1))

(* C5: the series connection of two Thevenin-reducible one-ports has       *)
(* Z = Za + Zb and V = Va + Vb, and the parallel connection of two         *)
(* Norton-reducible one-ports has Y = Ya + Yb and I = Ia + Ib (so two      *)
(* resistors R(a), R(b) give Z = a + b and Z = a*b/(a+b)).  Stated for     *)
(* the operands that need no reduction: two Thevenin objects in series,    *)
(* two Norton objects in parallel.                                         *)
C5_SeriesParallelSums ==
    /\ (opPc = <<"series">> /\ IsThevenin(opA) /\ IsThevenin(opB))
          => /\ IsPort(opRes)
             /\ SameValue(OnePort_Z(opRes), EAdd(opA.Z, opB.Z))
             /\ SameValue(OnePort_V(opRes), EAdd(opA.V, opB.V))
    /\ (opPc = <<"parallel">> /\ IsNorton(opA) /\ IsNorton(opB))
          => /\ IsPort(opRes)
             /\ SameValue(OnePort_Y(opRes), EAdd(opA.Y, opB.Y))
             /\ SameValue(OnePort_I(opRes), EAdd(opA.I, opB.I))

(* C6 as claimed: R(2) in series with V(5), in either order, is a Thevenin *)
(* one-port with Z = 2 and V = 5.                                          *)
IsRVScenario == opPc = <<"series">> /\ <<opA, opB>> \in {<<mR, mV>>, <<mV, mR>>}

C6_Original ==
    IsRVScenario
        => /\ IsThevenin(opRes)
           /\ SameValue(opRes.Z, EInt(2))
           /\ SameValue(opRes.V, EInt(5))

(* C6 as amended: R(2) in series with V(5), in either order, is a Thevenin *)
(* one-port with Z = 2 and the s-domain step V = 5/s.                      *)
C6_Amended ==
    IsRVScenario
        => /\ IsThevenin(opRes)
           /\ SameValue(opRes.Z, EInt(2))
           /\ SameValue(opRes.V, EDiv(EInt(5), ES))

C6_Witness ==
    /\ IsRVScenario /\ opA = mV /\ opB = mR
    /\ opRes = Thevenin(EAdd(EZero, EInt(2)), EAdd(mV.V, EZero))

(* C7 as claimed: R(2) in parallel with I(20) is a Norton one-port with    *)
(* Y = 1/2 and I = 20.                                                     *)
IsRIScenario == opPc = <<"parallel">> /\ opA = mR /\ opB = mI

C7_Original ==
    IsRIScenario
        => /\ IsNorton(opRes)
           /\ SameValue(OnePort_Y(opRes), ERat(1, 2))
           /\ SameValue(OnePort_I(opRes), EInt(20))

(* C7 as amended: R(2) in parallel with I(20) is a Thevenin one-port with  *)
(* Z = 2 and V = 40/s, whose Norton equivalent has Y = 1/2 and the         *)
(* s-domain step I = 20/s.                                                 *)
C7_Amended ==
    IsRIScenario
        => /\ IsThevenin(opRes)
           /\ SameValue(opRes.Z, EInt(2))
           /\ SameValue(opRes.V, EDiv(EInt(40), ES))
           /\ SameValue(OnePort_Y(opRes), ERat(1, 2))
           /\ SameValue(OnePort_I(opRes), EDiv(EInt(20), ES))

C7_Witness ==
    /\ IsRIScenario
    /\ IsThevenin(opRes)
    /\ SameValue(OnePort_I(opRes), mI.I)

(* C8: series fails with the illegal-topology error whenever either        *)
(* operand is a pure ideal current source in Norton form (an I, or a       *)
(* generic Norton with Y = 0).                                             *)
C8_CurrentSourceInSeries ==
    (opPc = <<"series">> /\ (IsCurrentSource(opA) \/ IsCurrentSource(opB)))
        => opRes = Raise(ErrCurrentSeries)

(* C9: parallel fails with the illegal-topology error whenever either      *)
(* operand is a pure ideal voltage source in Thevenin form (a V, or a      *)
(* generic Thevenin with Z = 0).                                           *)
C9_VoltageSourceInParallel ==
    (opPc = <<"parallel">> /\ (IsVoltageSource(opA) \/ IsVoltageSource(opB)))
        => opRes = Raise(ErrVoltageParallel)

(* C10: V(a).series(V(b)) is an ideal voltage source (Z = 0) whose V is    *)
(* V(a).V + V(b).V, and I(a).parallel(I(b)) is an ideal current source     *)
(* (Y = 0) whose I is I(a).I + I(b).I.                                     *)
C10_SourcesSumDirectly ==
    /\ (opPc = <<"series">> /\ opA.cls = "V" /\ opB.cls = "V")
          => /\ IsPort(opRes) /\ opRes.cls = "V"
             /\ EIsZero(opRes.Z)
             /\ SameValue(opRes.V, EAdd(opA.V, opB.V))
    /\ (opPc = <<"parallel">> /\ opA.cls = "I" /\ opB.cls = "I")
          => /\ IsPort(opRes) /\ opRes.cls = "I"
             /\ EIsZero(opRes.Y)
             /\ SameValue(opRes.I, EAdd(opA.I, opB.I))

---------------------------------------------------------------------------
(* Ladder networks of one-ports (Thevenin.parallel_pi, parallel_T).        *)

\* Thevenin.parallel_pi: (self.parallel(Z0) + Z1).parallel(Z2)
Thevenin_parallel_pi(self, Z0, Z1, Z2) == parallel(series(parallel(self, Z0), Z1), Z2)

\* Thevenin.parallel_T: (self.parallel(Z0) + Z1).parallel(Z2)
Thevenin_parallel_T(self, Z0, Z1, Z2) == parallel(series(parallel(self, Z0), Z1), Z2)

(* The ladder bench: a Thevenin network opA and three one-ports opB are    *)
(* built and one ladder method is called; opRes is what it returned.       *)

LadderSelves == {Thevenin(EInt(z), EInt(v)) : z \in 1..MaxVal, v \in 0..1}
LadderArgs == {R(EInt(1)), R(EInt(2)), Thevenin(EOne, EOne)}

InitLadder ==
    /\ opA \in LadderSelves
    /\ opB \in LadderArgs \X LadderArgs \X LadderArgs
    /\ opPc = <<>>
    /\ opRes = NoPort
    /\ opWarn = {}
    /\ MxIdle /\ ChIdle /\ PfIdle /\ TpIdle /\ StIdle

\* opA.parallel_pi(Z0, Z1, Z2)
CallParallelPi ==
    /\ opPc = <<>>
    /\ opRes' = Thevenin_parallel_pi(opA, opB[1], opB[2], opB[3])
    /\ opPc' = <<"parallel_pi">>
    /\ UNCHANGED <<opA, opB, opWarn, mxVars, chVars, pfVars, tpVars, stVars>>

\* opA.parallel_T(Z0, Z1, Z2)
CallParallelT ==
    /\ opPc = <<>>
    /\ opRes' = Thevenin_parallel_T(opA, opB[1], opB[2], opB[3])
    /\ opPc' = <<"parallel_T">>
    /\ UNCHANGED <<opA, opB, opWarn, mxVars, chVars, pfVars, tpVars, stVars>>

NextLadder == CallParallelPi \/ CallParallelT

SpecLadder == InitLadder /\ [][NextLadder]_vars

---------------------------------------------------------------------------
(* Claims about ladder networks, checked under SpecLadder.                 *)

\* the two one-ports have the same impedance and the same source
SameNetwork(x, y) ==
    /\ EEq(OnePort_Z(x), OnePort_Z(y))
    /\ EEq(OnePort_V(x), OnePort_V(y))

\* the network of the docstring of parallel_T: Z0 in series with self, Z1
\* in shunt, Z2 in series
TNetwork(self, Z0, Z1, Z2) == series(parallel(series(self, Z0), Z1), Z2)

(* C21: parallel_T(Z0, Z1, Z2) returns self.series(Z0).parallel(Z1)        *)
(* .series(Z2), a network different from parallel_pi(Z0, Z1, Z2).          *)
C21_ParallelT ==
    opPc = <<"parallel_T">> =>
        /\ SameNetwork(opRes, TNetwork(opA, opB[1], opB[2], opB[3]))
        /\ ~SameNetwork(opRes, Thevenin_parallel_pi(opA, opB[1], opB[2], opB[3]))

\* parallel_pi returns self.parallel(Z0).series(Z1).parallel(Z2)
ParallelPiAsDrawn ==
    opPc = <<"parallel_pi">> =>
        SameNetwork(opRes, parallel(series(parallel(opA, opB[1]), opB[2]), opB[3]))

---------------------------------------------------------------------------
(* Two-port matrices.  A matrix is a record: form is its class (AMatrix,   *)
(* BMatrix, HMatrix, YMatrix, ZMatrix), e11 .. e22 its entries, each kept  *)
(* in lowest terms.                                                        *)

\* _TwoPortMatrix.__new__ with four arguments
Mx(form, e11, e12, e21, e22) ==
    [form |-> form, e11 |-> ECancel(e11), e12 |-> ECancel(e12),
     e21 |-> ECancel(e21), e22 |-> ECancel(e22)]

\* sym.Matrix.det of a 2 x 2 matrix
det(M) == ESub(EMul(M.e11, M.e22), EMul(M.e12, M.e21))

\* the adjugate of M with only its diagonal divided by the determinant dt
Inverse_DiagonalOnly(form, M, dt) ==
    Mx(form, EDiv(M.e22, dt), ENeg(M.e12), ENeg(M.e21), EDiv(M.e11, dt))

\* the inverse of M, the adjugate over the determinant dt, as a matrix of
\* class form: the body of AMatrix.B, BMatrix.A, YMatrix.Z and ZMatrix.Y
Inverse(form, M, dt) ==
    Mx(form, EDiv(M.e22, dt), EDiv(ENeg(M.e12), dt), EDiv(ENeg(M.e21), dt), EDiv(M.e11, dt))

EMinusOne == EInt(-1)

\* the properties A, B, H, Y, Z of AMatrix
AMatrix_to(self, to) ==
    CASE to = "B" -> Inverse("B", self, det(self))
      [] to = "H" ->
          Mx("H", EDiv(self.e12, self.e22), EDiv(det(self), self.e22),
                  EDiv(EMinusOne, self.e22), EDiv(self.e21, self.e22))
      [] to = "Y" ->
          Mx("Y", EDiv(self.e22, self.e12), EDiv(ENeg(det(self)), self.e12),
                  EDiv(EMinusOne, self.e12), EDiv(self.e11, self.e12))
      [] to = "Z" ->
          Mx("Z", EDiv(self.e11, self.e21), EDiv(det(self), self.e21),
                  EDiv(EOne, self.e21), EDiv(self.e22, self.e21))
      [] OTHER -> self

\* the properties A, B, G, H, Y, Z of BMatrix; G returns an HMatrix
BMatrix_to(self, to) ==
    CASE to = "A" -> Inverse("A", self, det(self))
      [] to = "G" ->
          Mx("H", EDiv(ENeg(self.e21), self.e22), EDiv(EMinusOne, self.e22),
                  EDiv(det(self), self.e22), EDiv(ENeg(self.e12), self.e22))
      [] to = "H" ->
          Mx("H", EDiv(ENeg(self.e12), self.e11), EDiv(EOne, self.e11),
                  EDiv(ENeg(det(self)), self.e11), EDiv(ENeg(self.e21), self.e11))
      [] to = "Y" ->
          Mx("Y", EDiv(ENeg(self.e11), self.e12), EDiv(EOne, self.e12),
                  EDiv(det(self), self.e12), EDiv(ENeg(self.e22), self.e12))
      [] to = "Z" ->
          Mx("Z", EDiv(ENeg(self.e22), self.e21), EDiv(EMinusOne, self.e21),
                  EDiv(ENeg(det(self)), self.e21), EDiv(ENeg(self.e11), self.e21))
      [] OTHER -> self

\* sym.Matrix.inv of a matrix whose determinant is zero
ErrNotInvertible == "Matrix det == 0; not invertible."

\* the properties A, B, H, Y, Z of HMatrix, and G, which _TwoPortMatrix
\* gives: GMatrix(self.H.inv())
HMatrix_to(self, to) ==
    CASE to = "A" ->
          Mx("A", EDiv(ENeg(det(self)), self.e21), EDiv(ENeg(self.e11), self.e21),
                  EDiv(ENeg(self.e22), self.e21), EDiv(EMinusOne, self.e21))
      [] to = "B" ->
          Mx("B", EDiv(EOne, self.e12), EDiv(ENeg(self.e11), self.e12),
                  EDiv(ENeg(self.e22), self.e12), EDiv(det(self), self.e12))
      [] to = "Y" ->
          Mx("Y", EDiv(EOne, self.e11), EDiv(ENeg(self.e12), self.e11),
                  EDiv(self.e21, self.e11), EDiv(det(self), self.e11))
      [] to = "Z" ->
          Mx("Z", EDiv(det(self), self.e22), EDiv(self.e12, self.e22),
                  EDiv(ENeg(self.e21), self.e22), EDiv(EOne, self.e22))
      [] to = "G" ->
          IF EIsZero(det(self)) THEN Raise(ErrNotInvertible)
          ELSE Inverse("G", self, det(self))
      [] OTHER -> self

\* the properties A, B, H, Y, Z of YMatrix
YMatrix_to(self, to) ==
    CASE to = "A" ->
          Mx("A", EDiv(ENeg(self.e22), self.e21), EDiv(EMinusOne, self.e21),
                  EDiv(ENeg(det(self)), self.e21), EDiv(ENeg(self.e11), self.e21))
      [] to = "B" ->
          Mx("B", EDiv(ENeg(self.e11), self.e12), EDiv(EOne, self.e12),
                  EDiv(det(self), self.e12), EDiv(ENeg(self.e22), self.e12))
      [] to = "H" ->
          Mx("H", EDiv(EOne, self.e11), EDiv(ENeg(self.e12), self.e11),
                  EDiv(self.e21, self.e11), EDiv(det(self), self.e11))
      [] to = "Z" -> Inverse("Z", self, det(self))
      [] OTHER -> self

\* the properties A, B, H, Y, Z of ZMatrix
ZMatrix_to(self, to) ==
    CASE to = "A" ->
          Mx("A", EDiv(self.e11, self.e21), EDiv(det(self), self.e21),
                  EDiv(EOne, self.e21), EDiv(self.e22, self.e21))
      [] to = "B" ->
          Mx("B", EDiv(self.e22, self.e12), EDiv(ENeg(det(self)), self.e12),
                  EDiv(EMinusOne, self.e12), EDiv(self.e11, self.e12))
      [] to = "H" ->
          Mx("H", EDiv(det(self), self.e22), EDiv(self.e12, self.e22),
                  EDiv(ENeg(self.e21), self.e22), EDiv(EOne, self.e22))
      [] to = "Y" -> Inverse("Y", self, det(self))
      [] OTHER -> self

\* M.A, M.B, M.H, M.Y, M.Z: the property of M's class
Get(M, to) ==
    CASE M.form = "A" -> AMatrix_to(M, to)
      [] M.form = "B" -> BMatrix_to(M, to)
      [] M.form = "H" -> HMatrix_to(M, to)
      [] M.form = "Y" -> YMatrix_to(M, to)
      [] M.form = "Z" -> ZMatrix_to(M, to)

WarnDodgy(form) == "Producing dodgy " \o form \o " matrix"

\* warn() calls of the properties: only those of AMatrix warn
Get_warns(M, to) ==
    IF M.form = "A" /\ \/ to = "B" /\ EIsZero(det(M))
                       \/ to = "H" /\ EIsZero(M.e22)
                       \/ to = "Y" /\ EIsZero(M.e12)
                       \/ to = "Z" /\ EIsZero(M.e21)
    THEN {WarnDodgy(to)} ELSE {}

\* the matrix product M * N, as a matrix of class form
MatMul(form, M, N) ==
    Mx(form, EAdd(EMul(M.e11, N.e11), EMul(M.e12, N.e21)),
             EAdd(EMul(M.e11, N.e12), EMul(M.e12, N.e22)),
             EAdd(EMul(M.e21, N.e11), EMul(M.e22, N.e21)),
             EAdd(EMul(M.e21, N.e12), EMul(M.e22, N.e22)))

\* the matrix sum M + N, as a matrix of class form
MatAdd(form, M, N) ==
    Mx(form, EAdd(M.e11, N.e11), EAdd(M.e12, N.e12),
             EAdd(M.e21, N.e21), EAdd(M.e22, N.e22))

\* AMatrix.chain: self * x
AMatrix_chain(self, x) == MatMul("A", self, x)

\* the product in the order of AMatrix.chain
BMatrix_chain_SameOrder(self, x) == MatMul("B", self, x)

\* BMatrix.chain: x * self
BMatrix_chain(self, x) == MatMul("B", x, self)

\* Zseries with -Zval in both off-diagonal entries
BMatrix_Zseries_Symmetric(Zval) == Mx("B", EOne, ENeg(Zval), ENeg(Zval), EOne)

\* BMatrix.transformer, BMatrix.gyrator, BMatrix.Zseries, BMatrix.Yshunt
BMatrix_transformer(alpha) == Mx("B", alpha, EZero, EZero, EDiv(EOne, alpha))
BMatrix_gyrator(Rval) == Mx("B", EZero, Rval, EDiv(EOne, Rval), EZero)
BMatrix_Zseries(Zval) == Mx("B", EOne, ENeg(Zval), EZero, EOne)
BMatrix_Yshunt(Yval) == Mx("B", EOne, EZero, ENeg(Yval), EOne)

\* AMatrix.Zseries, AMatrix.Zshunt, BMatrix.Zshunt
AMatrix_Zseries(Zval) == Mx("A", EOne, Zval, EZero, EOne)
AMatrix_Zshunt(Zval) == Mx("A", EOne, EZero, EDiv(EOne, Zval), EOne)
BMatrix_Zshunt(Zval) == Mx("B", EOne, EZero, EDiv(EMinusOne, Zval), EOne)

\* AMatrix.Lsection, AMatrix.Tsection: the chain of the elements
AMatrix_Lsection(Z1, Z2) == AMatrix_chain(AMatrix_Zseries(Z1), AMatrix_Zshunt(Z2))
AMatrix_Tsection(Z1, Z2, Z3) == AMatrix_chain(AMatrix_Lsection(Z1, Z2), AMatrix_Zseries(Z3))

\* BMatrix.Lsection, BMatrix.Tsection: the closed forms, with Y = 1 / Z2
BMatrix_Lsection(Z1, Z2) ==
    Let(EDiv(EOne, Z2), LAMBDA Y :
        Mx("B", EAdd(EOne, EMul(Y, Z1)), ENeg(Z1), ENeg(Y), EOne))
BMatrix_Tsection(Z1, Z2, Z3) ==
    Let(EDiv(EOne, Z2), LAMBDA Y :
        Mx("B", EAdd(EOne, EMul(Y, Z1)),
                ESub(ENeg(Z1), EMul(Z3, EAdd(EOne, EMul(Y, Z1)))),
                ENeg(Y),
                EAdd(EOne, EMul(Y, Z3))))

---------------------------------------------------------------------------
(* Two-ports.  A two-port in the B model is a record: cls its class, M its *)
(* BMatrix, V2b and I2b its sources referred to port 2.                    *)

\* TwoPortBModel.__init__
TwoPortBModel(B, V2b, I2b) ==
    [cls |-> "TwoPortBModel", M |-> B, V2b |-> ECancel(V2b), I2b |-> ECancel(I2b)]

\* Series.__init__, Shunt.__init__
SeriesTP(T1) ==
    [cls |-> "Series", M |-> BMatrix_Zseries(OnePort_Z(T1)),
     V2b |-> ECancel(OnePort_V(T1)), I2b |-> EZero]
ShuntTP(T1) ==
    [cls |-> "Shunt", M |-> BMatrix_Yshunt(OnePort_Y(T1)),
     V2b |-> EZero, I2b |-> ECancel(OnePort_I(T1))]

\* IdealTransformer.__init__, IdealGyrator.__init__
IdealTransformer(alpha) ==
    [cls |-> "IdealTransformer", M |-> BMatrix_transformer(alpha), V2b |-> EZero, I2b |-> EZero]
IdealGyrator(Rval) ==
    [cls |-> "IdealGyrator", M |-> BMatrix_gyrator(Rval), V2b |-> EZero, I2b |-> EZero]

\* TwoPort.A: self._M.A
TwoPort_A(self) == Get(self.M, "A")

\* a row of foo = B * (-self.V2b, self.I2b).T
ChainSource(b1, b2, self) == EAdd(EMul(b1, ENeg(self.V2b)), EMul(b2, self.I2b))

\* TwoPort.chain with the A matrix of x in the place of its B matrix
TwoPort_chain_ByA(self, x) ==
    TwoPortBModel(MatMul("B", Get(x.M, "A"), self.M),
                  EAdd(ChainSource(x.M.e11, x.M.e12, self), x.V2b),
                  EAdd(ChainSource(x.M.e21, x.M.e22, self), x.I2b))

\* TwoPort.chain
TwoPort_chain(self, x) ==
    TwoPortBModel(MatMul("B", x.M, self.M),
                  EAdd(ChainSource(x.M.e11, x.M.e12, self), x.V2b),
                  EAdd(ChainSource(x.M.e21, x.M.e22, self), x.I2b))

\* the classes of two-ports that hold a B matrix and the sources V2b, I2b
BClasses == {"TwoPortBModel", "Series", "Shunt", "IdealTransformer", "IdealGyrator"}

\* TwoPortBModel.V1h, I2h, I1y, I2y, V1z, V2z: the sources of the H, Y and
\* Z models of a two-port that holds a B matrix
TwoPort_V1h(self) == ECancel(EDiv(ENeg(self.V2b), self.M.e11))
TwoPort_I2h(self) ==
    ESub(ECancel(EDiv(EMul(ENeg(self.V2b), self.M.e21), self.M.e11)), self.I2b)
TwoPort_I1y(self) == ECancel(EDiv(ENeg(self.V2b), self.M.e12))
TwoPort_I2y(self) ==
    ESub(ECancel(EDiv(EMul(self.V2b, self.M.e22), self.M.e12)), self.I2b)
TwoPort_V1z(self) == ECancel(EDiv(ENeg(self.I2b), self.M.e21))
TwoPort_V2z(self) ==
    ESub(self.V2b, ECancel(EDiv(EMul(self.I2b, self.M.e11), self.M.e21)))

\* TwoPort.isseries, TwoPort.isshunt
TwoPort_isseries(self) ==
    EEq(self.M.e11, EOne) /\ EEq(self.M.e22, EOne) /\ EIsZero(self.M.e21)
TwoPort_isshunt(self) ==
    EEq(self.M.e11, EOne) /\ EEq(self.M.e22, EOne) /\ EIsZero(self.M.e12)

\* TwoPort.isbilateral
TwoPort_isbilateral(self) == EEq(det(self.M), EOne)

WarnShuntY == "Converting a shunt two-port to a Y model is dodgy..."
WarnSeriesZ == "Converting a series two-port to a Z model is dodgy..."

\* TwoPortHModel.__init__, TwoPortYModel.__init__, TwoPortZModel.__init__
TwoPortHModel(H, V1h, I2h) ==
    [cls |-> "TwoPortHModel", M |-> H, V1h |-> ECancel(V1h), I2h |-> ECancel(I2h)]
TwoPortYModel(Y, I1y, I2y) ==
    [cls |-> "TwoPortYModel", M |-> Y, I1y |-> ECancel(I1y), I2y |-> ECancel(I2y)]
TwoPortZModel(Z, V1z, V2z) ==
    [cls |-> "TwoPortZModel", M |-> Z, V1z |-> ECancel(V1z), V2z |-> ECancel(V2z)]

\* TwoPort.Bmodel, Hmodel, Ymodel, Zmodel of a two-port that holds a B matrix
TwoPort_model(self, to) ==
    CASE to = "B" -> TwoPortBModel(Get(self.M, "B"), self.V2b, self.I2b)
      [] to = "H" -> TwoPortHModel(Get(self.M, "H"), TwoPort_V1h(self), TwoPort_I2h(self))
      [] to = "Y" -> TwoPortYModel(Get(self.M, "Y"), TwoPort_I1y(self), TwoPort_I2y(self))
      [] to = "Z" -> TwoPortZModel(Get(self.M, "Z"), TwoPort_V1z(self), TwoPort_V2z(self))

\* the warn() calls of Ymodel and Zmodel with the two tests exchanged
TwoPort_model_warns_Exchanged(self, to) ==
    IF to = "Y" /\ TwoPort_isseries(self) THEN {WarnShuntY}
    ELSE IF to = "Z" /\ TwoPort_isshunt(self) THEN {WarnSeriesZ}
    ELSE {}

\* the warn() calls of Ymodel and Zmodel
TwoPort_model_warns(self, to) ==
    IF to = "Y" /\ TwoPort_isshunt(self) THEN {WarnShuntY}
    ELSE IF to = "Z" /\ TwoPort_isseries(self) THEN {WarnSeriesZ}
    ELSE {}

\* TwoPortHModel.V2b, I2b; TwoPortYModel.V2b, I2b; TwoPortZModel.V2b, I2b:
\* the B-model sources as each model computes them from its own sources
TwoPortHModel_V2b(self) == ECancel(EDiv(self.V1h, self.M.e12))
TwoPortHModel_I2b(self) ==
    ESub(ECancel(EMul(ECancel(EDiv(self.M.e22, self.M.e12)), self.V1h)), self.I2h)
TwoPortYModel_V2b(self) == ECancel(EDiv(ECancel(EMul(self.I1y, self.M.e11)), self.M.e22))
TwoPortYModel_I2b(self) ==
    ESub(ECancel(EDiv(ECancel(EMul(ECancel(EMul(ENeg(self.I1y), self.M.e11)), self.M.e22)),
                      self.M.e12)),
         self.I2y)
TwoPortZModel_V2b(self) ==
    ESub(self.V2z, ECancel(EDiv(ECancel(EMul(self.V1z, self.M.e22)), self.M.e12)))
TwoPortZModel_I2b(self) == ECancel(EDiv(self.V1z, self.M.e12))

\* TwoPortZModel.I1y, I2y
TwoPortZModel_I1y(self) ==
    Let(det(self.M), LAMBDA Zdet :
        ESub(ECancel(EDiv(ECancel(EMul(ENeg(self.V1z), self.M.e22)), Zdet)),
             ECancel(EDiv(ECancel(EMul(self.V2z, self.M.e12)), Zdet))))
TwoPortZModel_I2y(self) ==
    Let(det(self.M), LAMBDA Zdet :
        ESub(ECancel(EDiv(ECancel(EMul(self.V1z, self.M.e21)), Zdet)),
             ECancel(EDiv(ECancel(EMul(self.V2z, self.M.e11)), Zdet))))

\* TwoPort.Bmodel of a Z model: TwoPortBModel(self.B, self.V2b, self.I2b)
TwoPortZModel_Bmodel(self) ==
    TwoPortBModel(ZMatrix_to(self.M, "B"), TwoPortZModel_V2b(self), TwoPortZModel_I2b(self))

\* self.V2b, self.I2b of a model of any of the four classes
Model_V2b(self) ==
    CASE self.cls = "TwoPortHModel" -> TwoPortHModel_V2b(self)
      [] self.cls = "TwoPortYModel" -> TwoPortYModel_V2b(self)
      [] self.cls = "TwoPortZModel" -> TwoPortZModel_V2b(self)
      [] OTHER -> self.V2b
Model_I2b(self) ==
    CASE self.cls = "TwoPortHModel" -> TwoPortHModel_I2b(self)
      [] self.cls = "TwoPortYModel" -> TwoPortYModel_I2b(self)
      [] self.cls = "TwoPortZModel" -> TwoPortZModel_I2b(self)
      [] OTHER -> self.I2b


ErrBadPort == "bad port values"
\* AttributeError: TwoPortYModel defines neither Vgain nor Igain
ErrNoAttribute == "object has no attribute"

\* an entry of a matrix, or the error raised in place of the matrix
Entry(M, e) == IF IsErr(M) THEN M ELSE ECancel(M[e])

\* Vgain of TwoPortBModel, TwoPortHModel and TwoPortZModel
Vgain(self, inport, outport) ==
    IF self.cls = "TwoPortYModel" THEN Raise(ErrNoAttribute)
    ELSE IF inport = outport THEN EOne
    ELSE IF inport = 1 /\ outport = 2
    THEN CASE self.cls \in BClasses -> ECancel(EDiv(EOne, Get(self.M, "A").e11))
           [] self.cls = "TwoPortHModel" -> Entry(Get(self.M, "G"), "e21")
           [] self.cls = "TwoPortZModel" -> ECancel(EDiv(self.M.e21, self.M.e11))
    ELSE IF inport = 2 /\ outport = 1
    THEN CASE self.cls \in BClasses -> ECancel(EDiv(EOne, Get(self.M, "B").e11))
           [] self.cls = "TwoPortHModel" -> Entry(Get(self.M, "H"), "e12")
           [] self.cls = "TwoPortZModel" -> ECancel(EDiv(self.M.e12, self.M.e22))
    ELSE Raise(ErrBadPort)

\* Igain of TwoPortBModel, TwoPortHModel and TwoPortZModel
Igain(self, inport, outport) ==
    IF self.cls = "TwoPortYModel" THEN Raise(ErrNoAttribute)
    ELSE IF inport = outport THEN EOne
    ELSE IF inport = 1 /\ outport = 2
    THEN CASE self.cls \in BClasses -> ECancel(EDiv(EMinusOne, Get(self.M, "A").e22))
           [] self.cls = "TwoPortHModel" -> Entry(Get(self.M, "H"), "e21")
           [] self.cls = "TwoPortZModel" -> ECancel(EDiv(ENeg(self.M.e21), self.M.e22))
    ELSE IF inport = 2 /\ outport = 1
    THEN CASE self.cls \in BClasses -> ECancel(EDiv(EMinusOne, Get(self.M, "B").e22))
           [] self.cls = "TwoPortHModel" -> Entry(Get(self.M, "G"), "e12")
           [] self.cls = "TwoPortZModel" -> ECancel(EDiv(ENeg(self.M.e12), self.M.e11))
    ELSE Raise(ErrBadPort)

---------------------------------------------------------------------------
(* The matrix bench: a matrix is built, then conversion properties are     *)
(* read one after the other, each on the result of the one before.  mxM    *)
(* is the matrix built, mxPath the properties read so far, mxCur what the  *)
(* last one returned and mxWarn the warnings issued.  Once in a run the    *)
(* matrix in hand, an AMatrix or a BMatrix, is chained with a second       *)
(* network, mxN, given by its A matrix.                                    *)

\* Matrix entries are the integers 0 .. MaxEntry and s.
MaxEntry == 2
\* Properties read in one run of the bench.
MaxConv == 2

MxEntries == {EInt(v) : v \in 0..MaxEntry} \cup {ES}

\* no matrix chained on yet
NoMx == [form |-> "none"]

\* The networks chained on: a series inductor, a network of determinant -1
\* and a singular one
ChainOperands ==
    {Mx("A", EOne, ES, EZero, EOne), Mx("A", ES, EOne, EOne, EZero),
     Mx("A", EOne, EOne, EOne, EOne)}

InitMatrix ==
    /\ mxM \in {Mx(f, a, b, c, d) : f \in {"A", "Y"}, a \in MxEntries, b \in MxEntries,
                                    c \in MxEntries, d \in MxEntries}
    /\ mxCur = mxM
    /\ mxPath = <<>>
    /\ mxWarn = {}
    /\ mxN = NoMx
    /\ OpIdle /\ ChIdle /\ PfIdle /\ TpIdle /\ StIdle

GetA ==
    /\ Len(mxPath) < MaxConv
    /\ mxCur' = Get(mxCur, "A")
    /\ mxPath' = Append(mxPath, "A")
    /\ mxWarn' = mxWarn \cup Get_warns(mxCur, "A")
    /\ UNCHANGED <<mxM, mxN, opVars, chVars, pfVars, tpVars, stVars>>

GetB ==
    /\ Len(mxPath) < MaxConv
    /\ mxCur' = Get(mxCur, "B")
    /\ mxPath' = Append(mxPath, "B")
    /\ mxWarn' = mxWarn \cup Get_warns(mxCur, "B")
    /\ UNCHANGED <<mxM, mxN, opVars, chVars, pfVars, tpVars, stVars>>

GetH ==
    /\ Len(mxPath) < MaxConv
    /\ mxCur' = Get(mxCur, "H")
    /\ mxPath' = Append(mxPath, "H")
    /\ mxWarn' = mxWarn \cup Get_warns(mxCur, "H")
    /\ UNCHANGED <<mxM, mxN, opVars, chVars, pfVars, tpVars, stVars>>

GetY ==
    /\ Len(mxPath) < MaxConv
    /\ mxCur' = Get(mxCur, "Y")
    /\ mxPath' = Append(mxPath, "Y")
    /\ mxWarn' = mxWarn \cup Get_warns(mxCur, "Y")
    /\ UNCHANGED <<mxM, mxN, opVars, chVars, pfVars, tpVars, stVars>>

GetZ ==
    /\ Len(mxPath) < MaxConv
    /\ mxCur' = Get(mxCur, "Z")
    /\ mxPath' = Append(mxPath, "Z")
    /\ mxWarn' = mxWarn \cup Get_warns(mxCur, "Z")
    /\ UNCHANGED <<mxM, mxN, opVars, chVars, pfVars, tpVars, stVars>>

\* mxCur.chain(N) for an AMatrix mxCur, mxCur.chain(N.B) for a BMatrix
Chain ==
    /\ Len(mxPath) < MaxConv
    /\ mxN = NoMx
    /\ mxCur.form \in {"A", "B"}
    /\ \E N \in ChainOperands :
          /\ mxN' = N
          /\ mxCur' = IF mxCur.form = "A" THEN AMatrix_chain(mxCur, N)
                      ELSE BMatrix_chain(mxCur, Get(N, "B"))
          /\ mxWarn' = IF mxCur.form = "A" THEN mxWarn ELSE mxWarn \cup Get_warns(N, "B")
    /\ mxPath' = Append(mxPath, "chain")
    /\ UNCHANGED <<mxM, opVars, chVars, pfVars, tpVars, stVars>>

NextMatrix == GetA \/ GetB \/ GetH \/ GetY \/ GetZ \/ Chain

SpecMatrix == InitMatrix /\ [][NextMatrix]_vars

---------------------------------------------------------------------------
(* Claims about two-port matrices, checked under SpecMatrix.               *)

SameEntries(M, N) ==
    /\ EEq(M.e11, N.e11) /\ EEq(M.e12, N.e12)
    /\ EEq(M.e21, N.e21) /\ EEq(M.e22, N.e22)

(* C2: for every AMatrix with a non-zero determinant, A.B.A has the four   *)
(* entries of A, and for every YMatrix with a non-zero determinant, Y.Z.Y  *)
(* has the four entries of Y.                                              *)
C2_RoundTrip ==
    /\ (mxM.form = "A" /\ mxPath = <<"B", "A">> /\ ~EIsZero(det(mxM)))
          => (mxCur.form = "A" /\ SameEntries(mxCur, mxM))
    /\ (mxM.form = "Y" /\ mxPath = <<"Z", "Y">> /\ ~EIsZero(det(mxM)))
          => (mxCur.form = "Y" /\ SameEntries(mxCur, mxM))

\* A.B.A has been read on A = [[s, 1], [2, s]], whose determinant is s^2 - 2
C2_Witness ==
    /\ mxM = Mx("A", ES, EOne, EInt(2), ES)
    /\ mxPath = <<"B", "A">>
    /\ mxCur = mxM
    /\ mxWarn = {}

(* C11: cascading P1 then P2 gives the B matrix B(P2) * B(P1), in          *)
(* BMatrix.chain and in TwoPort.chain, and it is the network of the A      *)
(* product: for A1 and A2 with non-zero determinants, (A1.chain(A2)).B and *)
(* A1.B.chain(A2.B) have the same entries.                                 *)
C11_ChainOrder ==
    (mxM.form = "A" /\ ~EIsZero(det(mxM)) /\ mxN # NoMx /\ ~EIsZero(det(mxN)))
        => /\ mxPath = <<"chain", "B">>
                => /\ mxCur.form = "B"
                   /\ SameEntries(mxCur, BMatrix_chain(Get(mxM, "B"), Get(mxN, "B")))
           /\ mxPath = <<"B", "chain">>
                => /\ mxCur.form = "B"
                   /\ SameEntries(mxCur, MatMul("B", Get(mxN, "B"), Get(mxM, "B")))
                   /\ SameEntries(mxCur, Get(AMatrix_chain(mxM, mxN), "B"))
                   /\ SameEntries(mxCur,
                          TwoPort_chain(TwoPortBModel(Get(mxM, "B"), EZero, EZero),
                                        TwoPortBModel(Get(mxN, "B"), EZero, EZero)).M)

\* A1 = [[s, 1], [2, s]] chained with the series inductor, then its B read:
\* the product is not the one in the other order
C11_Witness ==
    /\ mxM = Mx("A", ES, EOne, EInt(2), ES)
    /\ mxN = Mx("A", EOne, ES, EZero, EOne)
    /\ mxPath = <<"chain", "B">>
    /\ SameEntries(mxCur, MatMul("B", Get(mxN, "B"), Get(mxM, "B")))
    /\ ~SameEntries(mxCur, MatMul("B", Get(mxM, "B"), Get(mxN, "B")))

---------------------------------------------------------------------------
(* The section bench: mxM holds the impedances <<Z1, Z2, Z3>>; a section   *)
(* constructor of BMatrix is called, mxCur is what it returned and mxN the *)
(* same section built from its elements with chain and read from AMatrix.  *)

SectionZ == {EInt(v) : v \in 1..MaxEntry} \cup {ES, EAdd(ES, EOne)}

InitSection ==
    /\ mxM \in SectionZ \X SectionZ \X SectionZ
    /\ mxCur = NoMx
    /\ mxPath = <<>>
    /\ mxWarn = {}
    /\ mxN = NoMx
    /\ OpIdle /\ ChIdle /\ PfIdle /\ TpIdle /\ StIdle

\* BMatrix.Zseries(Z1).chain(BMatrix.Zshunt(Z2))
LsectionChained(Z1, Z2) == BMatrix_chain(BMatrix_Zseries(Z1), BMatrix_Zshunt(Z2))

\* BMatrix.Lsection(Z1, Z2), with the chain of its elements and
\* AMatrix.Lsection(Z1, Z2).B
CallLsection ==
    /\ mxPath = <<>>
    /\ mxCur' = BMatrix_Lsection(mxM[1], mxM[2])
    /\ mxN' = [form |-> "pair",
               chained |-> LsectionChained(mxM[1], mxM[2]),
               fromA |-> AMatrix_to(AMatrix_Lsection(mxM[1], mxM[2]), "B")]
    /\ mxPath' = <<"Lsection">>
    /\ UNCHANGED <<mxM, mxWarn, opVars, chVars, pfVars, tpVars, stVars>>

\* BMatrix.Tsection(Z1, Z2, Z3), with the L-section chained with
\* BMatrix.Zseries(Z3) and AMatrix.Tsection(Z1, Z2, Z3).B
CallTsection ==
    /\ mxPath = <<>>
    /\ mxCur' = BMatrix_Tsection(mxM[1], mxM[2], mxM[3])
    /\ mxN' = [form |-> "pair",
               chained |-> BMatrix_chain(LsectionChained(mxM[1], mxM[2]), BMatrix_Zseries(mxM[3])),
               fromA |-> AMatrix_to(AMatrix_Tsection(mxM[1], mxM[2], mxM[3]), "B")]
    /\ mxPath' = <<"Tsection">>
    /\ UNCHANGED <<mxM, mxWarn, opVars, chVars, pfVars, tpVars, stVars>>

NextSection == CallLsection \/ CallTsection

SpecSection == InitSection /\ [][NextSection]_vars

(* C26: for all non-zero Z1, Z2, Z3, BMatrix.Lsection(Z1, Z2) equals       *)
(* BMatrix.Zseries(Z1).chain(BMatrix.Zshunt(Z2)) and                      *)
(* AMatrix.Lsection(Z1, Z2).B, and BMatrix.Tsection(Z1, Z2, Z3) equals     *)
(* that L-section chained with BMatrix.Zseries(Z3) and                    *)
(* AMatrix.Tsection(Z1, Z2, Z3).B.                                         *)
C26_SectionsAgree ==
    mxPath # <<>> => SameEntries(mxCur, mxN.chained) /\ SameEntries(mxCur, mxN.fromA)

\* the part that holds: the chain of the elements is the B matrix read from
\* the AMatrix section, and it is the closed form with its two diagonal
\* entries exchanged
SectionDiagonalExchanged ==
    mxPath # <<>>
        => /\ SameEntries(mxN.chained, mxN.fromA)
           /\ SameEntries(mxN.chained, Mx("B", mxCur.e22, mxCur.e12, mxCur.e21, mxCur.e11))

---------------------------------------------------------------------------
(* The conversion bench: one property (A, B, G, H, Y or Z) of an AMatrix   *)
(* or a BMatrix mxM is read; mxCur is what it returned and mxWarn the      *)
(* warnings issued.                                                        *)

InitConvert ==
    /\ mxM \in {Mx(f, a, b, c, d) : f \in {"A", "B"}, a \in MxEntries, b \in MxEntries,
                                    c \in MxEntries, d \in MxEntries}
    /\ mxCur = mxM
    /\ mxPath = <<>>
    /\ mxWarn = {}
    /\ mxN = NoMx
    /\ OpIdle /\ ChIdle /\ PfIdle /\ TpIdle /\ StIdle

\* the properties an AMatrix and a BMatrix define themselves
OwnProperties(M) ==
    IF M.form = "A" THEN {"A", "B", "H", "Y", "Z"} ELSE {"A", "B", "G", "H", "Y", "Z"}

\* mxM.A, mxM.B, mxM.G, mxM.H, mxM.Y, mxM.Z
GetOnce ==
    /\ mxPath = <<>>
    /\ \E to \in OwnProperties(mxCur) :
          /\ mxCur' = Get(mxCur, to)
          /\ mxPath' = <<to>>
          /\ mxWarn' = mxWarn \cup Get_warns(mxCur, to)
    /\ UNCHANGED <<mxM, mxN, opVars, chVars, pfVars, tpVars, stVars>>

NextConvert == GetOnce

SpecConvert == InitConvert /\ [][NextConvert]_vars

---------------------------------------------------------------------------
(* Claims about singular conversions, checked under SpecConvert.           *)

(* C25: every representation accessor returns a matrix tagged with the     *)
(* requested form: m.A is an AMatrix, m.B a BMatrix, m.G a GMatrix, m.H an *)
(* HMatrix, m.Y a YMatrix and m.Z a ZMatrix.                               *)
C25_FormOfAccessor ==
    mxPath # <<>> => mxCur.form = mxPath[1]

\* the part that holds: every property of an AMatrix, and every property of
\* a BMatrix but G, returns a matrix of the class asked for; BMatrix.G
\* returns an HMatrix
FormOfAccessorButG ==
    mxPath # <<>>
        => IF mxM.form = "B" /\ mxPath[1] = "G" THEN mxCur.form = "H"
           ELSE mxCur.form = mxPath[1]

\* the entry or determinant that the property to of M divides by
Divisor(M, to) ==
    IF M.form = "A"
    THEN CASE to = "B" -> det(M) [] to = "H" -> M.e22
           [] to = "Y" -> M.e12 [] to = "Z" -> M.e21
    ELSE CASE to = "A" -> det(M) [] to = "G" -> M.e22 [] to = "H" -> M.e11
           [] to = "Y" -> M.e12 [] to = "Z" -> M.e21

\* the conversion read divides by an exact zero
SingularRead == mxPath # <<>> /\ mxPath[1] # mxM.form /\ EIsZero(Divisor(mxM, mxPath[1]))

\* M has an entry that is zero or not finite
HasDodgyEntry(M) ==
    \E e \in {"e11", "e12", "e21", "e22"} : EIsZero(M[e]) \/ ~IsFinite(M[e])

(* C14: a conversion that divides by an exact zero (A->B with det(A) = 0,  *)
(* A->H with A22 = 0, A->Y with A12 = 0, A->Z with A21 = 0, B->A with      *)
(* det(B) = 0, B->G with B22 = 0, B->H with B11 = 0, B->Y with B12 = 0,    *)
(* B->Z with B21 = 0) returns a matrix of the target form with an infinite *)
(* or zero entry and issues the 'dodgy' warning of that form.              *)
C14_SingularConversionWarns ==
    SingularRead =>
        /\ ~IsErr(mxCur)
        /\ mxCur.form = mxPath[1]
        /\ HasDodgyEntry(mxCur)
        /\ WarnDodgy(mxPath[1]) \in mxWarn

\* the part of C14 that holds: the conversions of an AMatrix warn, and those
\* of a BMatrix return a matrix with an infinite or zero entry
SingularAWarns ==
    SingularRead =>
        /\ ~IsErr(mxCur) /\ HasDodgyEntry(mxCur)
        /\ mxM.form = "A" => mxCur.form = mxPath[1] /\ WarnDodgy(mxPath[1]) \in mxWarn
        /\ mxM.form = "B" => mxWarn = {}

---------------------------------------------------------------------------
(* The chain bench: three two-ports P1, P2, P3 are built (chP) and chained *)
(* in the two groupings.  chL is P1.chain(P2) and then P1.chain(P2)        *)
(* .chain(P3); chR is P2.chain(P3) and then P1.chain(P2.chain(P3)).  Each  *)
(* holds the number of chain calls made and the two-port in hand.          *)

\* Series and shunt resistors have the values 1 .. MaxR.
MaxR == 1

TwoPorts ==
    {SeriesTP(R(EInt(r))) : r \in 1..MaxR}
    \cup {ShuntTP(R(EInt(r))) : r \in 1..MaxR}
    \cup {IdealTransformer(EInt(2)), IdealGyrator(EInt(2))}
    \cup {SeriesTP(V(EOne)), ShuntTP(I(EOne)), ShuntTP(C(EOne, EOne))}
    \cup {TwoPortBModel(Mx("B", EInt(2), EOne, EZero, EOne), EOne, EOne),
          TwoPortBModel(Mx("B", EOne, EOne, EOne, EOne), EZero, EZero)}

InitChain ==
    /\ chP \in TwoPorts \X TwoPorts \X TwoPorts
    /\ chL = [calls |-> 0, tp |-> NoPort]
    /\ chR = [calls |-> 0, tp |-> NoPort]
    /\ OpIdle /\ MxIdle /\ PfIdle /\ TpIdle /\ StIdle

\* P1.chain(P2)
LeftFirst ==
    /\ chL.calls = 0
    /\ chL' = [calls |-> 1, tp |-> TwoPort_chain(chP[1], chP[2])]
    /\ UNCHANGED <<chP, chR, opVars, mxVars, pfVars, tpVars, stVars>>

\* (P1.chain(P2)).chain(P3)
LeftSecond ==
    /\ chL.calls = 1
    /\ chL' = [calls |-> 2, tp |-> TwoPort_chain(chL.tp, chP[3])]
    /\ UNCHANGED <<chP, chR, opVars, mxVars, pfVars, tpVars, stVars>>

\* P2.chain(P3)
RightFirst ==
    /\ chR.calls = 0
    /\ chR' = [calls |-> 1, tp |-> TwoPort_chain(chP[2], chP[3])]
    /\ UNCHANGED <<chP, chL, opVars, mxVars, pfVars, tpVars, stVars>>

\* P1.chain(P2.chain(P3))
RightSecond ==
    /\ chR.calls = 1
    /\ chR' = [calls |-> 2, tp |-> TwoPort_chain(chP[1], chR.tp)]
    /\ UNCHANGED <<chP, chL, opVars, mxVars, pfVars, tpVars, stVars>>

NextChain == LeftFirst \/ LeftSecond \/ RightFirst \/ RightSecond

SpecChain == InitChain /\ [][NextChain]_vars

---------------------------------------------------------------------------
(* Claims about chaining, checked under SpecChain.                         *)

NonDegenerate(P) == ~EIsZero(det(P.M))

BothChained == chL.calls = 2 /\ chR.calls = 2

(* C3: for all two-ports P1, P2, P3 with non-singular matrices,            *)
(* P1.chain(P2).chain(P3) and P1.chain(P2.chain(P3)) have the same A       *)
(* matrix, which is the AMatrix.chain product of the three A matrices in   *)
(* either grouping.                                                        *)
C3_ChainAssociative ==
    (BothChained /\ \A i \in 1..3 : NonDegenerate(chP[i]))
        => /\ TwoPort_A(chL.tp).form = "A"
           /\ SameEntries(TwoPort_A(chL.tp), TwoPort_A(chR.tp))
           /\ SameEntries(TwoPort_A(chL.tp),
                  AMatrix_chain(AMatrix_chain(TwoPort_A(chP[1]), TwoPort_A(chP[2])),
                                TwoPort_A(chP[3])))
           /\ SameEntries(TwoPort_A(chR.tp),
                  AMatrix_chain(TwoPort_A(chP[1]),
                                AMatrix_chain(TwoPort_A(chP[2]), TwoPort_A(chP[3]))))

\* both groupings are built for a series R, a gyrator and a shunt C
C3_Witness ==
    /\ BothChained
    /\ chP = <<SeriesTP(R(EOne)), IdealGyrator(EInt(2)), ShuntTP(C(EOne, EOne))>>
    /\ IsFinite(TwoPort_A(chL.tp).e11)
    /\ TwoPort_A(chL.tp) = TwoPort_A(chR.tp)
    /\ TwoPort_A(chL.tp) # TwoPort_A(chP[1])

(* C22: for all two-ports P1, P2, P3 with any sources (V2b, I2b),           *)
(* P1.chain(P2).chain(P3) and P1.chain(P2.chain(P3)) have the same V2b and *)
(* the same I2b.                                                           *)
C22_ChainSourcesAssociative ==
    BothChained => /\ EEq(chL.tp.V2b, chR.tp.V2b)
                   /\ EEq(chL.tp.I2b, chR.tp.I2b)

\* the two groupings have the same sources when P1 has none
ChainSourcesOfSourceFreeHead ==
    (BothChained /\ EIsZero(chP[1].V2b) /\ EIsZero(chP[1].I2b))
        => /\ EEq(chL.tp.V2b, chR.tp.V2b)
           /\ EEq(chL.tp.I2b, chR.tp.I2b)

---------------------------------------------------------------------------
(* The build bench: a network is built from Series(T) and Shunt(T)         *)
(* elements by chain; chP is the sequence of the elements used so far and  *)
(* chL.tp the two-port built from them.                                    *)

\* Elements chained in one run of the bench.
MaxChain == 3

\* one-ports with a finite non-zero impedance
BuildOnePorts ==
    {R(EInt(r)) : r \in 1..(MaxR + 1)} \cup {Thevenin(ES, EOne), Norton(ES, EOne)}

BuildElements == {SeriesTP(T) : T \in BuildOnePorts} \cup {ShuntTP(T) : T \in BuildOnePorts}

\* Series(T), Shunt(T)
InitBuild ==
    /\ \E e \in BuildElements :
          /\ chP = <<e>>
          /\ chL = [calls |-> 0, tp |-> e]
    /\ chR = [calls |-> 0, tp |-> NoPort]
    /\ OpIdle /\ MxIdle /\ PfIdle /\ TpIdle /\ StIdle

\* chL.tp.chain(Series(T))
ChainSeries ==
    /\ Len(chP) < MaxChain
    /\ \E T \in BuildOnePorts :
          /\ chL' = [calls |-> chL.calls + 1, tp |-> TwoPort_chain(chL.tp, SeriesTP(T))]
          /\ chP' = Append(chP, SeriesTP(T))
    /\ UNCHANGED <<chR, opVars, mxVars, pfVars, tpVars, stVars>>

\* chL.tp.chain(Shunt(T))
ChainShunt ==
    /\ Len(chP) < MaxChain
    /\ \E T \in BuildOnePorts :
          /\ chL' = [calls |-> chL.calls + 1, tp |-> TwoPort_chain(chL.tp, ShuntTP(T))]
          /\ chP' = Append(chP, ShuntTP(T))
    /\ UNCHANGED <<chR, opVars, mxVars, pfVars, tpVars, stVars>>

NextBuild == ChainSeries \/ ChainShunt

SpecBuild == InitBuild /\ [][NextBuild]_vars

(* C30: every two-port reachable by a finite sequence of chain operations  *)
(* over Series(T) and Shunt(T) elements, T a one-port with finite non-zero *)
(* Z, is bilateral: det(B) = 1 at every step; Series(T) alone satisfies    *)
(* isseries and Shunt(T) alone satisfies isshunt.                          *)
C30_Bilateral ==
    /\ TwoPort_isbilateral(chL.tp)
    /\ (chL.calls = 0 /\ chL.tp.cls = "Series") => TwoPort_isseries(chL.tp)
    /\ (chL.calls = 0 /\ chL.tp.cls = "Shunt") => TwoPort_isshunt(chL.tp)

\* a series, a shunt and a series element chained: a T-section whose B
\* matrix has no zero entry and is neither a series nor a shunt network
C30_Witness ==
    /\ Len(chP) = 3
    /\ chP[1].cls = "Series" /\ chP[2].cls = "Shunt" /\ chP[3].cls = "Series"
    /\ \A e \in {"e11", "e12", "e21", "e22"} : ~EIsZero(chL.tp.M[e])
    /\ ~TwoPort_isseries(chL.tp) /\ ~TwoPort_isshunt(chL.tp)
    /\ EEq(det(chL.tp.M), EOne)

---------------------------------------------------------------------------
(* The cascade bench: two Thevenin one-ports chP = <<a, b>> are built;     *)
(* chL is the chain of their two-port elements and chR the two-port        *)
(* element of their one-port composition.                                  *)

CascadeOnePorts ==
    {Thevenin(z, EInt(v)) : z \in {EInt(n) : n \in 1..(MaxR + 1)} \cup {ES}, v \in 0..2}

InitCascade ==
    /\ chP \in CascadeOnePorts \X CascadeOnePorts
    /\ chL = [calls |-> 0, tp |-> NoPort]
    /\ chR = [calls |-> 0, tp |-> NoPort]
    /\ OpIdle /\ MxIdle /\ PfIdle /\ TpIdle /\ StIdle

\* Series(a).chain(Series(b)) and Series(a.series(b))
CascadeSeries ==
    /\ chL.calls = 0
    /\ chL' = [calls |-> 1, kind |-> "series", tp |-> TwoPort_chain(SeriesTP(chP[1]), SeriesTP(chP[2]))]
    /\ chR' = [calls |-> 1, kind |-> "series", tp |-> SeriesTP(series(chP[1], chP[2]))]
    /\ UNCHANGED <<chP, opVars, mxVars, pfVars, tpVars, stVars>>

\* Shunt(a).chain(Shunt(b)) and Shunt(a.parallel(b))
CascadeShunt ==
    /\ chL.calls = 0
    /\ chL' = [calls |-> 1, kind |-> "shunt", tp |-> TwoPort_chain(ShuntTP(chP[1]), ShuntTP(chP[2]))]
    /\ chR' = [calls |-> 1, kind |-> "shunt", tp |-> ShuntTP(parallel(chP[1], chP[2]))]
    /\ UNCHANGED <<chP, opVars, mxVars, pfVars, tpVars, stVars>>

NextCascade == CascadeSeries \/ CascadeShunt

SpecCascade == InitCascade /\ [][NextCascade]_vars

---------------------------------------------------------------------------
(* Claims about the cascade of elements, checked under SpecCascade.        *)

\* the two two-ports have the same B matrix and the same sources
SameBModel(P, Q) ==
    /\ SameEntries(P.M, Q.M)
    /\ EEq(P.V2b, Q.V2b)
    /\ EEq(P.I2b, Q.I2b)

(* C23: for Thevenin one-ports a and b, Series(a).chain(Series(b)) has the *)
(* B matrix and the sources (V2b, I2b) of Series(a.series(b)), and         *)
(* Shunt(a).chain(Shunt(b)) those of Shunt(a.parallel(b)).                 *)
C23_CascadeAgrees ==
    chL.calls = 1 => SameBModel(chL.tp, chR.tp)

\* the B matrices agree, and the sources too for shunt elements and for
\* series elements whose first one-port has no source
CascadeMatrixAgrees ==
    chL.calls = 1 =>
        /\ SameEntries(chL.tp.M, chR.tp.M)
        /\ (chL.kind = "shunt" \/ EIsZero(chP[1].V)) => SameBModel(chL.tp, chR.tp)

\* issubclass(x.__class__, OnePort), issubclass(x.__class__, TwoPort)
IsOnePort(x) == IsThevenin(x) \/ IsNorton(x)
TwoPortClasses == BClasses \cup {"TwoPortHModel", "TwoPortYModel", "TwoPortZModel"}
IsTwoPort(x) == IsPort(x) /\ x.cls \in TwoPortClasses

\* raise ValueError(msg), raise NotImplementedError(msg), raise TypeError(msg)
ValueError(msg) == [err |-> msg, exc |-> "ValueError"]
NotImplementedError(msg) == [err |-> msg, exc |-> "NotImplementedError"]
TypeError(msg) == [err |-> msg, exc |-> "TypeError"]

ErrTODO == "TODO"
ErrTODOGModel == "TODO GModel"
ErrNotTwoPort == "Argument not TwoPort"
WarnDoYouMeanChain ==
    "Do you mean chain?  The result of a series combination of two two-ports may be dodgy"

\* TwoPort.series
TwoPort_series(self, x) ==
    IF IsOnePort(x) THEN NotImplementedError(ErrTODO)
    ELSE IF ~IsTwoPort(x) THEN TypeError(ErrNotTwoPort)
    ELSE TwoPortZModel(MatAdd("Z", Get(self.M, "Z"), Get(x.M, "Z")),
                       EAdd(TwoPort_V1z(self), TwoPort_V1z(x)),
                       EAdd(TwoPort_V2z(self), TwoPort_V2z(x)))

\* TwoPort.parallel
TwoPort_parallel(self, x) ==
    IF IsOnePort(x) THEN NotImplementedError(ErrTODO)
    ELSE IF ~IsTwoPort(x) THEN TypeError(ErrNotTwoPort)
    ELSE TwoPortYModel(MatAdd("Y", Get(self.M, "Y"), Get(x.M, "Y")),
                       EAdd(TwoPort_I1y(self), TwoPort_I1y(x)),
                       EAdd(TwoPort_I2y(self), TwoPort_I2y(x)))

\* TwoPort.hybrid
TwoPort_hybrid(self, x) ==
    IF IsOnePort(x) THEN NotImplementedError(ErrTODO)
    ELSE IF ~IsTwoPort(x) THEN TypeError(ErrNotTwoPort)
    ELSE TwoPortHModel(MatAdd("H", Get(self.M, "H"), Get(x.M, "H")),
                       EAdd(TwoPort_V1h(self), TwoPort_V1h(x)),
                       EAdd(TwoPort_I2h(self), TwoPort_I2h(x)))

\* TwoPort.inversehybrid with the body of hybrid
TwoPort_inversehybrid_AsHybrid(self, x) == TwoPort_hybrid(self, x)

\* TwoPort.inversehybrid
TwoPort_inversehybrid(self, x) ==
    IF IsOnePort(x) THEN NotImplementedError(ErrTODO)
    ELSE IF ~IsTwoPort(x) THEN TypeError(ErrNotTwoPort)
    ELSE NotImplementedError(ErrTODOGModel)

ErrNotOnePort == "Argument not OnePort"
ErrInvalidPort == "Invalid port "
\* 'Invalid port ' + port for a port that is no string
ErrConcatenate == "cannot concatenate str and int"

\* TwoPort.Z1oc, Z2oc: the diagonal of self.Z; TwoPort.V1oc, V2oc
TwoPort_Z1oc(self) == ECancel(Get(self.M, "Z").e11)
TwoPort_Z2oc(self) == ECancel(Get(self.M, "Z").e22)
TwoPort_V1oc(self) == TwoPort_V1z(self)
TwoPort_V2oc(self) == TwoPort_V2z(self)

\* TwoPort.load
TwoPort_load(self, T) ==
    IF ~IsOnePort(T) THEN TypeError(ErrNotOnePort)
    ELSE Thevenin(TwoPort_Z1oc(TwoPort_chain(self, ShuntTP(T))),
                  TwoPort_V1oc(TwoPort_chain(self, ShuntTP(T))))

\* TwoPort.source
TwoPort_source(self, T) ==
    IF ~IsOnePort(T) THEN TypeError(ErrNotOnePort)
    ELSE Thevenin(TwoPort_Z2oc(TwoPort_chain(ShuntTP(T), self)),
                  TwoPort_V2oc(TwoPort_chain(ShuntTP(T), self)))

\* A port argument is an integer [int |-> n] or a string [str |-> t].
IsIntPort(port, n) == "int" \in DOMAIN port /\ port.int = n

\* TwoPort.terminate
TwoPort_terminate(self, T, port) ==
    IF IsIntPort(port, 1) THEN TwoPort_source(self, T)
    ELSE IF IsIntPort(port, 2) THEN TwoPort_load(self, T)
    ELSE IF "str" \in DOMAIN port THEN ValueError(ErrInvalidPort \o port.str)
    ELSE TypeError(ErrConcatenate)

\* the combination of self and x by the method named op
Combine(op, self, x) ==
    CASE op = "series" -> TwoPort_series(self, x)
      [] op = "parallel" -> TwoPort_parallel(self, x)
      [] op = "hybrid" -> TwoPort_hybrid(self, x)
      [] op = "inversehybrid" -> TwoPort_inversehybrid(self, x)

\* the warn() call of series
Combine_warns(op, self, x) ==
    IF op = "series" /\ IsTwoPort(x) THEN {WarnDoYouMeanChain} ELSE {}

---------------------------------------------------------------------------
(* The two-port bench: a two-port tpP is built; one of its models (Bmodel, *)
(* Hmodel, Ymodel, Zmodel) may be taken, and one method is then called on  *)
(* the two-port in hand, tpM.  tpPc is the model taken and the call made   *)
(* with its arguments, tpOut what the call returned and tpWarn the         *)
(* warnings issued.                                                        *)

\* Port numbers passed to the methods are 1 .. MaxPortArg.
MaxPortArg == 3

PortArgs == 1..MaxPortArg

\* the two-ports of the chain bench and three whose matrices have no zero
\* entry and a non-zero determinant
TpNetworks ==
    TwoPorts
    \cup {TwoPortBModel(Mx("B", EInt(2), EOne, EOne, EOne), EOne, EOne),
          TwoPortBModel(Mx("B", ES, EOne, EOne, EInt(2)), EZero, EOne),
          TwoPortBModel(Mx("B", EOne, ES, EInt(2), EOne), EOne, EZero)}

\* an operand that is neither a one-port nor a two-port: a number, a matrix
NotNetworks == {[val |-> EInt(2)], Mx("B", EOne, EZero, EZero, EOne)}

\* the operands handed to the composition methods
TpOperands ==
    {R(EInt(2)), C(EOne, EOne), V(EOne), I(EOne), Thevenin(EInt(2), EOne)}
    \cup {SeriesTP(R(EInt(2))), ShuntTP(I(EOne)),
          TwoPortBModel(Mx("B", EInt(2), EOne, EOne, EOne), EOne, EOne)}
    \cup NotNetworks

\* the port arguments: 1 .. MaxPortArg and two strings
PortValues == {[int |-> n] : n \in PortArgs} \cup {[str |-> "2"], [str |-> "out"]}

NoCall == [model |-> "none", call |-> "none", args |-> <<>>]

InitTwoPort ==
    /\ tpP \in TpNetworks
    /\ tpM = tpP
    /\ tpPc = NoCall
    /\ tpOut = NoPort
    /\ tpWarn = {}
    /\ OpIdle /\ MxIdle /\ ChIdle /\ PfIdle /\ StIdle

\* tpP.Bmodel, tpP.Hmodel, tpP.Ymodel, tpP.Zmodel
ToModel ==
    /\ tpPc = NoCall
    /\ \E to \in {"B", "H", "Y", "Z"} :
          /\ tpM' = TwoPort_model(tpP, to)
          /\ tpPc' = [tpPc EXCEPT !.model = to]
          /\ tpWarn' = tpWarn \cup TwoPort_model_warns(tpP, to)
    /\ UNCHANGED <<tpP, tpOut, opVars, mxVars, chVars, pfVars, stVars>>

\* sympy's inverse of a matrix with a non-finite entry is not modelled: the
\* gains of an H model are asked for when its matrix is finite
GainModelled(self) ==
    self.cls = "TwoPortHModel"
        => \A e \in {"e11", "e12", "e21", "e22"} : IsFinite(self.M[e])

\* tpM.Vgain(inport, outport)
CallVgain ==
    /\ tpPc.call = "none"
    /\ GainModelled(tpM)
    /\ \E inport \in PortArgs, outport \in PortArgs :
          /\ tpOut' = Vgain(tpM, inport, outport)
          /\ tpPc' = [tpPc EXCEPT !.call = "Vgain", !.args = <<inport, outport>>]
    /\ UNCHANGED <<tpP, tpM, tpWarn, opVars, mxVars, chVars, pfVars, stVars>>

\* tpM.Igain(inport, outport)
CallIgain ==
    /\ tpPc.call = "none"
    /\ GainModelled(tpM)
    /\ \E inport \in PortArgs, outport \in PortArgs :
          /\ tpOut' = Igain(tpM, inport, outport)
          /\ tpPc' = [tpPc EXCEPT !.call = "Igain", !.args = <<inport, outport>>]
    /\ UNCHANGED <<tpP, tpM, tpWarn, opVars, mxVars, chVars, pfVars, stVars>>

\* tpP.series(x), tpP.parallel(x), tpP.hybrid(x), tpP.inversehybrid(x)
CallCombine ==
    /\ tpPc = NoCall
    /\ \E op \in {"series", "parallel", "hybrid", "inversehybrid"}, x \in TpOperands :
          /\ tpOut' = Combine(op, tpP, x)
          /\ tpWarn' = tpWarn \cup Combine_warns(op, tpP, x)
          /\ tpPc' = [tpPc EXCEPT !.call = op, !.args = <<x>>]
    /\ UNCHANGED <<tpP, tpM, opVars, mxVars, chVars, pfVars, stVars>>

\* tpP.load(T), tpP.source(T)
CallLoad ==
    /\ tpPc = NoCall
    /\ \E f \in {"load", "source"}, T \in TpOperands :
          /\ tpOut' = IF f = "load" THEN TwoPort_load(tpP, T) ELSE TwoPort_source(tpP, T)
          /\ tpPc' = [tpPc EXCEPT !.call = f, !.args = <<T>>]
    /\ UNCHANGED <<tpP, tpM, tpWarn, opVars, mxVars, chVars, pfVars, stVars>>

\* tpP.terminate(T, port)
CallTerminate ==
    /\ tpPc = NoCall
    /\ \E T \in TpOperands, port \in PortValues :
          /\ tpOut' = TwoPort_terminate(tpP, T, port)
          /\ tpPc' = [tpPc EXCEPT !.call = "terminate", !.args = <<T, port>>]
    /\ UNCHANGED <<tpP, tpM, tpWarn, opVars, mxVars, chVars, pfVars, stVars>>

NextTwoPort == ToModel \/ CallVgain \/ CallIgain \/ CallCombine \/ CallLoad \/ CallTerminate

SpecTwoPort == InitTwoPort /\ [][NextTwoPort]_vars


---------------------------------------------------------------------------
(* Claims about two-ports, checked under SpecTwoPort.                      *)

\* no entry of the B matrix of P is zero, and neither is its determinant
FullMatrix(P) ==
    /\ ~EIsZero(det(P.M))
    /\ \A e \in {"e11", "e12", "e21", "e22"} : ~EIsZero(P.M[e])

\* the model of tpP that ToModel built is one of Hmodel, Ymodel, Zmodel
Remodelled == tpPc.model \in {"H", "Y", "Z"} /\ tpPc.call = "none"

\* C24: for a non-degenerate TwoPortBModel M with sources (V2b, I2b), each of
\* M.Hmodel, M.Ymodel and M.Zmodel reports, through its own V2b and I2b
\* accessors, the original V2b and I2b
C24_SourcesSurvive ==
    (Remodelled /\ tpP.cls = "TwoPortBModel" /\ FullMatrix(tpP))
        => EEq(Model_V2b(tpM), tpP.V2b) /\ EEq(Model_I2b(tpM), tpP.I2b)

\* the part that holds: the Z model reports the original sources, and the H
\* model reports the original voltage source negated
ZmodelSourcesSurvive ==
    (Remodelled /\ tpPc.model = "Z" /\ tpP.cls = "TwoPortBModel" /\ FullMatrix(tpP))
        => EEq(Model_V2b(tpM), tpP.V2b) /\ EEq(Model_I2b(tpM), tpP.I2b)
HmodelSourceNegated ==
    (Remodelled /\ tpPc.model = "H" /\ tpP.cls = "TwoPortBModel" /\ FullMatrix(tpP))
        => EEq(Model_V2b(tpM), ENeg(tpP.V2b))

---------------------------------------------------------------------------
(* The Z-model bench: tpP is a TwoPortZModel built from a Z matrix and the *)
(* sources V1z, V2z; tpM is tpP or tpP.Bmodel, and tpOut the short-circuit *)
(* current read from tpM.                                                  *)

ZModelEntries == {EInt(v) : v \in 1..MaxEntry} \cup {ES}

ZModels ==
    {TwoPortZModel(Mx("Z", z[1], z[2], z[3], z[4]), EInt(v[1]), EInt(v[2])) :
        z \in ZModelEntries \X ZModelEntries \X ZModelEntries \X ZModelEntries,
        v \in (0..MaxVal) \X (0..MaxVal)}

InitZModel ==
    /\ tpP \in ZModels
    /\ tpM = tpP
    /\ tpPc = NoCall
    /\ tpOut = NoPort
    /\ tpWarn = {}
    /\ OpIdle /\ MxIdle /\ ChIdle /\ PfIdle /\ StIdle

\* tpP.Bmodel
ZModelBmodel ==
    /\ tpPc = NoCall
    /\ tpM' = TwoPortZModel_Bmodel(tpP)
    /\ tpPc' = [tpPc EXCEPT !.model = "B"]
    /\ UNCHANGED <<tpP, tpOut, tpWarn, opVars, mxVars, chVars, pfVars, stVars>>

\* tpM.I1y
ZModelI1y ==
    /\ tpPc.call = "none"
    /\ tpOut' = IF tpM.cls = "TwoPortZModel" THEN TwoPortZModel_I1y(tpM) ELSE TwoPort_I1y(tpM)
    /\ tpPc' = [tpPc EXCEPT !.call = "I1y"]
    /\ UNCHANGED <<tpP, tpM, tpWarn, opVars, mxVars, chVars, pfVars, stVars>>

\* tpM.I2y
ZModelI2y ==
    /\ tpPc.call = "none"
    /\ tpOut' = IF tpM.cls = "TwoPortZModel" THEN TwoPortZModel_I2y(tpM) ELSE TwoPort_I2y(tpM)
    /\ tpPc' = [tpPc EXCEPT !.call = "I2y"]
    /\ UNCHANGED <<tpP, tpM, tpWarn, opVars, mxVars, chVars, pfVars, stVars>>

NextZModel == ZModelBmodel \/ ZModelI1y \/ ZModelI2y

SpecZModel == InitZModel /\ [][NextZModel]_vars

\* the short-circuit current read from the B model of tpP
ReadFromBmodel(name) == tpPc.model = "B" /\ tpPc.call = name

(* C28: for every non-degenerate TwoPortZModel M with sources (V1z, V2z),  *)
(* M.I1y and M.I2y equal the I1y and I2y of M.Bmodel, that is -V2b/B12 and *)
(* V2b*B22/B12 - I2b computed from M's own V2b, I2b and B.                 *)
C28_ShortCircuitCurrents ==
    NonDegenerate(tpP)
        => /\ ReadFromBmodel("I1y") => EEq(tpOut, TwoPortZModel_I1y(tpP))
           /\ ReadFromBmodel("I2y") => EEq(tpOut, TwoPortZModel_I2y(tpP))

\* the part that holds: I2y agrees, and I1y agrees when V2z is zero
ShortCircuitCurrentsAgree ==
    NonDegenerate(tpP)
        => /\ (ReadFromBmodel("I1y") /\ EIsZero(tpP.V2z)) => EEq(tpOut, TwoPortZModel_I1y(tpP))
           /\ ReadFromBmodel("I2y") => EEq(tpOut, TwoPortZModel_I2y(tpP))

\* the gain asked for, from the A, B, G, H and Z matrices of P
GainsOf(P, call, args) ==
    CASE call = "Vgain" /\ args = <<1, 2>> ->
          {EDiv(EOne, Get(P.M, "A").e11),
           Get(Get(P.M, "H"), "G").e21,
           EDiv(Get(P.M, "Z").e21, Get(P.M, "Z").e11)}
      [] call = "Vgain" /\ args = <<2, 1>> ->
          {EDiv(EOne, P.M.e11), Get(P.M, "H").e12}
      [] call = "Igain" /\ args = <<1, 2>> ->
          {EDiv(EMinusOne, Get(P.M, "A").e22),
           Get(P.M, "H").e21,
           EDiv(ENeg(Get(P.M, "Z").e21), Get(P.M, "Z").e22)}
      [] call = "Igain" /\ args = <<2, 1>> ->
          {EDiv(EMinusOne, P.M.e22), Get(Get(P.M, "H"), "G").e12}
      [] OTHER -> {EOne}

\* the forward gains as quotients of entries of the Y matrix of P
YGainsOf(P, call, args) ==
    CASE call = "Vgain" /\ args = <<1, 2>> ->
          {EDiv(Get(P.M, "Y").e21, Get(P.M, "Y").e22)}
      [] call = "Igain" /\ args = <<1, 2>> ->
          {EDiv(Get(P.M, "Y").e21, Get(P.M, "Y").e11)}
      [] OTHER -> {}

(* C12: for a two-port whose matrix has no zero entry and a non-zero       *)
(* determinant, Vgain and Igain return the same value whichever model (B,  *)
(* H, Y or Z) holds the network: the forward voltage gain is 1/A11 = G21 = *)
(* Z21/Z11 = Y21/Y22, the reverse voltage gain 1/B11 = H12, the forward    *)
(* current gain -1/A22 = H21 = -Z21/Z22 = Y21/Y11, the reverse current     *)
(* gain -1/B22 = G12, and a gain from a port to itself is 1.               *)
C12_GainsAgree ==
    (FullMatrix(tpP) /\ tpPc.call \in {"Vgain", "Igain"}
       /\ tpPc.args \in {<<1, 2>>, <<2, 1>>, <<1, 1>>, <<2, 2>>})
        => /\ ~IsErr(tpOut)
           /\ \A g \in GainsOf(tpP, tpPc.call, tpPc.args)
                         \cup YGainsOf(tpP, tpPc.call, tpPc.args) : EEq(tpOut, g)

\* the part of C12 that holds: the B, H and Z models return the same gain,
\* equal to the quotients of the A, B, G, H and Z entries
GainsAgreeBHZ ==
    (FullMatrix(tpP) /\ tpPc.call \in {"Vgain", "Igain"} /\ tpPc.model # "Y"
       /\ tpPc.args \in {<<1, 2>>, <<2, 1>>, <<1, 1>>, <<2, 2>>})
        => /\ ~IsErr(tpOut)
           /\ \A g \in GainsOf(tpP, tpPc.call, tpPc.args) : EEq(tpOut, g)

\* the Y model answers neither call
YModelHasNoGain ==
    (tpPc.model = "Y" /\ tpPc.call \in {"Vgain", "Igain"})
        => tpOut = Raise(ErrNoAttribute)

\* M has an entry that is not finite
HasInfiniteEntry(M) == \E e \in {"e11", "e12", "e21", "e22"} : ~IsFinite(M[e])

\* tpP is Series(T), respectively Shunt(T), for a T with finite non-zero Z
IsSeriesOfZ == tpP.cls = "Series" /\ IsFinite(tpP.M.e12) /\ ~EIsZero(tpP.M.e12)
IsShuntOfZ == tpP.cls = "Shunt" /\ IsFinite(tpP.M.e21) /\ ~EIsZero(tpP.M.e21)

(* C16 as stated: for every one-port T with finite non-zero Z, the Y       *)
(* matrix of Series(T) has an infinite entry and Series(T).Ymodel warns,   *)
(* and the Z matrix of Shunt(T) has an infinite entry and Shunt(T).Zmodel  *)
(* warns.                                                                  *)
C16_Original ==
    /\ IsSeriesOfZ =>
          /\ HasInfiniteEntry(Get(tpP.M, "Y"))
          /\ tpPc.model = "Y" => tpWarn # {}
    /\ IsShuntOfZ =>
          /\ HasInfiniteEntry(Get(tpP.M, "Z"))
          /\ tpPc.model = "Z" => tpWarn # {}

(* C16, amended: for every one-port T with finite non-zero Z, it is the Z  *)
(* matrix of Series(T) that has an infinite entry and Series(T).Zmodel     *)
(* that warns, and the Y matrix of Shunt(T) that has an infinite entry and *)
(* Shunt(T).Ymodel that warns; the Y matrix of Series(T) and the Z matrix  *)
(* of Shunt(T) are finite and Series(T).Ymodel and Shunt(T).Zmodel issue   *)
(* no warning.                                                             *)
C16_Amended ==
    /\ IsSeriesOfZ =>
          /\ HasInfiniteEntry(Get(tpP.M, "Z")) /\ ~HasInfiniteEntry(Get(tpP.M, "Y"))
          /\ tpPc.model = "Z" => tpWarn = {WarnSeriesZ} /\ HasInfiniteEntry(tpM.M)
          /\ tpPc.model = "Y" => tpWarn = {} /\ ~HasInfiniteEntry(tpM.M)
    /\ IsShuntOfZ =>
          /\ HasInfiniteEntry(Get(tpP.M, "Y")) /\ ~HasInfiniteEntry(Get(tpP.M, "Z"))
          /\ tpPc.model = "Y" => tpWarn = {WarnShuntY} /\ HasInfiniteEntry(tpM.M)
          /\ tpPc.model = "Z" => tpWarn = {} /\ ~HasInfiniteEntry(tpM.M)

\* Series(R(1)).Zmodel warns and holds an infinite Z matrix
C16_Witness ==
    /\ tpP = SeriesTP(R(EOne))
    /\ tpPc.model = "Z" /\ tpPc.call = "none"
    /\ tpWarn = {WarnSeriesZ}
    /\ HasInfiniteEntry(tpM.M)

\* what load and source return for a one-port T, from the B matrix and the
\* sources of the chain
LoadOf(P, T) ==
    Thevenin(ECancel(EDiv(ENeg(TwoPort_chain(P, ShuntTP(T)).M.e22),
                          TwoPort_chain(P, ShuntTP(T)).M.e21)),
             TwoPort_V1z(TwoPort_chain(P, ShuntTP(T))))
SourceOf(P, T) ==
    Thevenin(ECancel(EDiv(ENeg(TwoPort_chain(ShuntTP(T), P).M.e11),
                          TwoPort_chain(ShuntTP(T), P).M.e21)),
             TwoPort_V2z(TwoPort_chain(ShuntTP(T), P)))

\* load and source: the Thevenin pair of the chain, a TypeError when T is
\* no one-port
LoadAndSource ==
    /\ tpPc.call = "load" =>
          tpOut = IF IsOnePort(tpPc.args[1]) THEN LoadOf(tpP, tpPc.args[1])
                  ELSE TypeError(ErrNotOnePort)
    /\ tpPc.call = "source" =>
          tpOut = IF IsOnePort(tpPc.args[1]) THEN SourceOf(tpP, tpPc.args[1])
                  ELSE TypeError(ErrNotOnePort)

(* C18: terminate(T, port) of a two-port returns source(T) for port 1 and  *)
(* load(T) for port 2 and raises the ValueError 'Invalid port' for every   *)
(* other port value; load(T) is the Thevenin pair (Z1oc, V1oc) of          *)
(* chain(Shunt(T)), source(T) the pair (Z2oc, V2oc) of Shunt(T).chain, and *)
(* both raise a TypeError for a T that is no one-port.                     *)
C18_Terminate ==
    /\ LoadAndSource
    /\ tpPc.call = "terminate" =>
          LET T == tpPc.args[1]
              port == tpPc.args[2]
          IN  IF port = [int |-> 1] THEN tpOut = TwoPort_source(tpP, T)
              ELSE IF port = [int |-> 2] THEN tpOut = TwoPort_load(tpP, T)
              ELSE IsErr(tpOut) /\ tpOut.exc = "ValueError"

\* the part of C18 about terminate that holds: ports 1 and 2, and the
\* ValueError for a port that is a string
TerminateValidPort ==
    tpPc.call = "terminate" =>
        LET T == tpPc.args[1]
            port == tpPc.args[2]
        IN  IF port = [int |-> 1] THEN tpOut = TwoPort_source(tpP, T)
            ELSE IF port = [int |-> 2] THEN tpOut = TwoPort_load(tpP, T)
            ELSE IF "str" \in DOMAIN port THEN tpOut = ValueError(ErrInvalidPort \o port.str)
            ELSE tpOut = TypeError(ErrConcatenate)

(* C13: TwoPort.series, parallel and hybrid with a one-port operand, and   *)
(* TwoPort.inversehybrid with a one-port or a two-port operand, raise a    *)
(* NotImplementedError and return no network; all four raise a TypeError   *)
(* for an operand that is neither a one-port nor a two-port.               *)
C13_NotImplemented ==
    tpPc.call \in {"series", "parallel", "hybrid", "inversehybrid"} =>
        LET x == tpPc.args[1] IN
        /\ IsOnePort(x) => IsErr(tpOut) /\ tpOut.exc = "NotImplementedError"
        /\ (tpPc.call = "inversehybrid" /\ IsTwoPort(x))
              => IsErr(tpOut) /\ tpOut.exc = "NotImplementedError"
        /\ (~IsOnePort(x) /\ ~IsTwoPort(x))
              => IsErr(tpOut) /\ tpOut.exc = "TypeError"

C13_Witness ==
    /\ tpPc.call = "inversehybrid"
    /\ tpPc.args = <<SeriesTP(R(EInt(2)))>>
    /\ tpOut = NotImplementedError(ErrTODOGModel)

---------------------------------------------------------------------------
(* Three-ports.  A 3x3 matrix is a tuple of three rows of three entries; a *)
(* ThreePort holds its impedance matrix Z and the vector Vz of its         *)
(* open-circuit voltages.                                                  *)

\* the two indices left when row or column p is deleted, in their order
Others(p) == IF p = 1 THEN <<2, 3>> ELSE IF p = 2 THEN <<1, 3>> ELSE <<1, 2>>

\* M.copy(), row_del(r - 1), col_del(c - 1), as a 2x2 matrix of class form
Deleted(form, M, r, c) ==
    Mx(form, M[Others(r)[1]][Others(c)[1]], M[Others(r)[1]][Others(c)[2]],
             M[Others(r)[2]][Others(c)[1]], M[Others(r)[2]][Others(c)[2]])

\* sym.Matrix.det and sym.Matrix.inv of a 3x3 matrix: the cofactors, the
\* expansion of the determinant along the first row, the adjugate over it
Cofactor(M, r, c) ==
    Let(ECancel(det(Deleted("Z", M, r, c))),
        LAMBDA d : IF (r + c) % 2 = 0 THEN d ELSE ENeg(d))
Det3(M) ==
    Let(Coefs([j \in 1..3 |-> ECancel(EMul(M[1][j], Cofactor(M, 1, j)))], 3),
        LAMBDA t : ECancel(EAdd(ECancel(EAdd(t[1], t[2])), t[3])))
InvRow(M, i, dt) == Coefs([j \in 1..3 |-> ECancel(EDiv(Cofactor(M, j, i), dt))], 3)
Inv3Over(M, dt) == Coefs([i \in 1..3 |-> InvRow(M, i, dt)], 3)
Inv3(M) == Let(Det3(M), LAMBDA dt : Inv3Over(M, dt))

\* ThreePort.__init__
ThreePort(Z, Vz) == [cls |-> "ThreePort", M |-> Z, Vz |-> Vz]

\* ThreePort.Z, ThreePort.Voc
ThreePort_Z(self) == self.M
ThreePort_Voc(self) == self.Vz

\* ThreePort.Y; self.Y raises the ValueError of inv when det(Z) = 0
ThreePort_Y(self) == Inv3(self.M)
ThreePort_Y_raises(self) == EIsZero(Det3(self.M))

\* ThreePort.opencircuit
ThreePort_opencircuit(self, port) ==
    TwoPortZModel(Deleted("Z", ThreePort_Z(self), port, port),
                  ThreePort_Voc(self)[Others(port)[1]], ThreePort_Voc(self)[Others(port)[2]])

\* ThreePort.shortcircuit with the matrix opencircuit reduces
ThreePort_shortcircuit_FromZ(self, port) == ThreePort_opencircuit(self, port)

\* ThreePort.shortcircuit
ThreePort_shortcircuit(self, port) ==
    IF ThreePort_Y_raises(self) THEN ValueError(ErrNotInvertible)
    ELSE TwoPortZModel(Get(Deleted("Y", ThreePort_Y(self), port, port), "Z"),
                       ThreePort_Voc(self)[Others(port)[1]],
                       ThreePort_Voc(self)[Others(port)[2]])

\* ThreePort.Isc: Voc[m] * Y[m, m], for Y the value of self.Y
IscOf(Voc, Y) == Coefs([m \in 1..3 |-> ECancel(EMul(Voc[m], Y[m][m]))], 3)
ThreePort_Isc(self) == IscOf(self.Vz, ThreePort_Y(self))

\* ThreePort.portcheck: 'Invalid port ' + port fails for a number
ThreePort_portcheck(port) == port \in {1, 2, 3}

\* the end of attach_parallel and of bridge: Z = Y.Z, Voc[m] = Isc[m] * Z[m, m]
ThreePortOf(Y, Isc) ==
    Let(Det3(Y), LAMBDA dt :
        IF EIsZero(dt) THEN ValueError(ErrNotInvertible)
        ELSE Let(Inv3Over(Y, dt), LAMBDA Z : ThreePort(Z, IscOf(Isc, Z))))

\* the sum of two 3x3 matrices
Add3(M, N) ==
    Coefs([i \in 1..3 |-> Coefs([j \in 1..3 |-> ECancel(EAdd(M[i][j], N[i][j]))], 3)], 3)

\* ThreePort.attach_parallel: T.Y is added to Y[p, p] and T.Isc to Isc[p]
ThreePort_attach_parallel(self, T, port) ==
    IF ~IsOnePort(T) THEN TypeError(ErrNotOnePort)
    ELSE IF ~ThreePort_portcheck(port) THEN TypeError(ErrConcatenate)
    ELSE
    Let(Det3(self.M), LAMBDA dt :
    IF EIsZero(dt) THEN ValueError(ErrNotInvertible)
    ELSE
    Let(Inv3Over(self.M, dt), LAMBDA Y :
        ThreePortOf([Y EXCEPT ![port][port] = ECancel(EAdd(@, OnePort_Y(T)))],
                    [IscOf(self.Vz, Y) EXCEPT ![port] = ECancel(EAdd(@, OnePort_I(T)))])))

---------------------------------------------------------------------------
(* The three-port bench: a three-port tpP is built and one of its ports is *)
(* short-circuited or open-circuited; tpPc is the call made and tpOut the  *)
(* two-port it returned.                                                   *)

\* impedance matrices with diagonal entries 1 .. MaxVal, symmetric and not
Z3Matrices ==
    {<<<<EInt(x), EOne, EZero>>, <<EOne, EInt(y), EOne>>, <<EZero, EOne, EInt(z)>>>> :
        x \in 1..MaxVal, y \in 1..MaxVal, z \in 1..MaxVal}
    \cup {<<<<EInt(x), EInt(2), EOne>>, <<EOne, EInt(y), EZero>>, <<EOne, ES, EInt(z)>>>> :
        x \in 1..MaxVal, y \in 1..MaxVal, z \in 1..MaxVal}

VocVectors == {<<EZero, EZero, EZero>>, <<EOne, EInt(2), ES>>}

InitThreePort ==
    /\ tpP \in {ThreePort(Z, Vz) : Z \in Z3Matrices, Vz \in VocVectors}
    /\ tpM = tpP
    /\ tpPc = NoCall
    /\ tpOut = NoPort
    /\ tpWarn = {}
    /\ OpIdle /\ MxIdle /\ ChIdle /\ PfIdle /\ StIdle

\* tpP.shortcircuit(port)
Shortcircuit ==
    /\ tpPc = NoCall
    /\ \E port \in 1..3 :
          /\ tpOut' = ThreePort_shortcircuit(tpP, port)
          /\ tpPc' = [tpPc EXCEPT !.call = "shortcircuit", !.args = <<port>>]
    /\ UNCHANGED <<tpP, tpM, tpWarn, opVars, mxVars, chVars, pfVars, stVars>>

\* tpP.opencircuit(port)
Opencircuit ==
    /\ tpPc = NoCall
    /\ \E port \in 1..3 :
          /\ tpOut' = ThreePort_opencircuit(tpP, port)
          /\ tpPc' = [tpPc EXCEPT !.call = "opencircuit", !.args = <<port>>]
    /\ UNCHANGED <<tpP, tpM, tpWarn, opVars, mxVars, chVars, pfVars, stVars>>

\* the one-ports attached: the null element G(0), a resistor, a source
AttachOnePorts == {G(EZero), R(EOne), Norton(EOne, EOne)}

\* tpP.attach_parallel(T, port)
AttachParallel ==
    /\ tpPc = NoCall
    /\ \E T \in AttachOnePorts, port \in 1..3 :
          /\ tpOut' = ThreePort_attach_parallel(tpP, T, port)
          /\ tpPc' = [tpPc EXCEPT !.call = "attach_parallel", !.args = <<T, port>>]
    /\ UNCHANGED <<tpP, tpM, tpWarn, opVars, mxVars, chVars, pfVars, stVars>>

NextThreePort == Shortcircuit \/ Opencircuit \/ AttachParallel

SpecThreePort == InitThreePort /\ [][NextThreePort]_vars

---------------------------------------------------------------------------
(* Claims about three-ports, checked under SpecThreePort.                  *)

\* the one-port has Y = 0 and I = 0
IsNullElement(T) == EIsZero(OnePort_Y(T)) /\ EIsZero(OnePort_I(T))

\* a null element was attached to a three-port with an invertible Z
NullAttached ==
    /\ tpPc.call = "attach_parallel"
    /\ IsNullElement(tpPc.args[1])
    /\ ~EIsZero(Det3(tpP.M))

\* the 3x3 matrices, and the vectors, have equal entries
Same3(M, N) == \A i \in 1..3, j \in 1..3 : EEq(M[i][j], N[i][j])
SameVector(v, w) == \A m \in 1..3 : EEq(v[m], w[m])

(* C27: for every ThreePort N with invertible Z and any open-circuit       *)
(* voltage vector, and every port in {1, 2, 3}, N.attach_parallel(T, port) *)
(* with a one-port T that has Y = 0 and I = 0 returns a network with the   *)
(* same impedance matrix and the same open-circuit voltage vector as N.    *)
C27_NullAttach ==
    NullAttached
        => /\ ~IsErr(tpOut)
           /\ Same3(tpOut.M, tpP.M)
           /\ SameVector(tpOut.Vz, tpP.Vz)

\* the part that holds: the impedance matrix is the same, and the returned
\* Voc[m] is Voc[m] * Y[m, m] * Z[m, m], which is Voc when Voc is zero
NullAttachKeepsZ ==
    NullAttached
        => /\ ~IsErr(tpOut)
           /\ Same3(tpOut.M, tpP.M)
           /\ SameVector(tpOut.Vz,
                         [m \in 1..3 |-> EMul(tpP.Vz[m], EMul(ThreePort_Y(tpP)[m][m], tpP.M[m][m]))])
           /\ (\A m \in 1..3 : EIsZero(tpP.Vz[m])) => SameVector(tpOut.Vz, tpP.Vz)

\* the entry (i, j) of the product of the 3x3 matrices M and N
Prod3(M, N, i, j) ==
    EAdd(EAdd(EMul(M[i][1], N[1][j]), EMul(M[i][2], N[2][j])), EMul(M[i][3], N[3][j]))

\* Y is the inverse of Z: Y * Z is the identity
IsInverse3(Y, Z) ==
    \A i \in 1..3, j \in 1..3 : EEq(Prod3(Y, Z, i, j), IF i = j THEN EOne ELSE EZero)

\* the 2x2 matrix M is the inverse of the block of Y that is left without
\* row and column p
IsInverseOfBlock(M, Y, p) ==
    LET i == Others(p)[1]
        j == Others(p)[2]
    IN  /\ EEq(EAdd(EMul(M.e11, Y[i][i]), EMul(M.e12, Y[j][i])), EOne)
        /\ EEq(EAdd(EMul(M.e11, Y[i][j]), EMul(M.e12, Y[j][j])), EZero)
        /\ EEq(EAdd(EMul(M.e21, Y[i][i]), EMul(M.e22, Y[j][i])), EZero)
        /\ EEq(EAdd(EMul(M.e21, Y[i][j]), EMul(M.e22, Y[j][j])), EOne)

\* the block of Y without row and column p has a non-zero determinant
BlockInvertible(Y, p) ==
    ~EIsZero(ESub(EMul(Y[Others(p)[1]][Others(p)[1]], Y[Others(p)[2]][Others(p)[2]]),
                  EMul(Y[Others(p)[1]][Others(p)[2]], Y[Others(p)[2]][Others(p)[1]])))

(* C19: for a three-port with an invertible impedance matrix,              *)
(* shortcircuit(port) returns the two-port whose Z matrix is the inverse   *)
(* of the admittance matrix without the row and column of the port, and    *)
(* opencircuit(port) the two-port whose Z matrix is the impedance matrix   *)
(* without the row and column of the port; in both the two remaining ports *)
(* keep their order and carry their own entries of Voc.                    *)
C19_PortReduction ==
    (tpPc.call \in {"shortcircuit", "opencircuit"} /\ ~EIsZero(Det3(tpP.M))) =>
        LET p == tpPc.args[1]
            i == Others(p)[1]
            j == Others(p)[2]
        IN  /\ ~IsErr(tpOut) /\ tpOut.cls = "TwoPortZModel"
            /\ i < j /\ EEq(tpOut.V1z, tpP.Vz[i]) /\ EEq(tpOut.V2z, tpP.Vz[j])
            /\ tpPc.call = "opencircuit" =>
                  /\ EEq(tpOut.M.e11, tpP.M[i][i]) /\ EEq(tpOut.M.e12, tpP.M[i][j])
                  /\ EEq(tpOut.M.e21, tpP.M[j][i]) /\ EEq(tpOut.M.e22, tpP.M[j][j])
            /\ tpPc.call = "shortcircuit" =>
                  /\ IsInverse3(ThreePort_Y(tpP), tpP.M)
                  /\ BlockInvertible(ThreePort_Y(tpP), p)
                        => IsInverseOfBlock(tpOut.M, ThreePort_Y(tpP), p)

\* port 2 of a three-port with an asymmetric Z matrix is short-circuited:
\* the two-port is that of ports 1 and 3 and differs from the one that
\* open-circuiting returns
C19_Witness ==
    /\ tpPc.call = "shortcircuit" /\ tpPc.args = <<2>>
    /\ tpP = ThreePort(<<<<EOne, EInt(2), EOne>>, <<EOne, EInt(2), EZero>>,
                         <<EOne, ES, EOne>>>>, <<EOne, EInt(2), ES>>)
    /\ ~IsErr(tpOut)
    /\ BlockInvertible(ThreePort_Y(tpP), 2)
    /\ IsInverseOfBlock(tpOut.M, ThreePort_Y(tpP), 2)
    /\ ~SameEntries(tpOut.M, ThreePort_opencircuit(tpP, 2).M)
    /\ EEq(tpOut.V1z, EOne) /\ EEq(tpOut.V2z, ES)

---------------------------------------------------------------------------
(* Objects.  The store is the sequence of the objects built so far, an     *)
(* object's address its index.  A matrix or vector object holds its rows   *)
(* or entries m; a network object holds the record net of its class, in    *)
(* which the fields M and Vz are the addresses of its matrix and vector.   *)
(* A method reads its operands in the store, builds new objects at the end *)
(* of it and assigns in place where the code does.                         *)

MatrixCell(form, m) == [kind |-> "Matrix", form |-> form, m |-> m]

Rows2(M) == <<<<M.e11, M.e12>>, <<M.e21, M.e22>>>>
AsMx(cell) == Mx(cell.form, cell.m[1][1], cell.m[1][2], cell.m[2][1], cell.m[2][2])

\* the network at address a, with its matrix and vector read in the store
Deref(st, a) ==
    IF st[a].kind = "ThreePort" THEN ThreePort(st[st[a].net.M].m, st[st[a].net.Vz].m)
    ELSE IF st[a].kind = "TwoPort" THEN [st[a].net EXCEPT !.M = AsMx(st[@])]
    ELSE st[a].net

\* the constructors: the objects of the network net are added to the store;
\* a call that raised adds none
StoreNet(st, net) ==
    IF IsErr(net) THEN [st |-> st, out |-> net]
    ELSE IF net.cls = "ThreePort"
    THEN [st |-> st \o <<MatrixCell("Z3", net.M), MatrixCell("V", net.Vz),
                         [kind |-> "ThreePort",
                          net |-> [net EXCEPT !.M = Len(st) + 1, !.Vz = Len(st) + 2]]>>,
          out |-> [addr |-> Len(st) + 3]]
    ELSE IF IsTwoPort(net)
    THEN [st |-> st \o <<MatrixCell(net.M.form, Rows2(net.M)),
                         [kind |-> "TwoPort", net |-> [net EXCEPT !.M = Len(st) + 1]]>>,
          out |-> [addr |-> Len(st) + 2]]
    ELSE [st |-> Append(st, [kind |-> "OnePort", net |-> net]),
          out |-> [addr |-> Len(st) + 1]]

\* M.copy() without the copy: the object itself
copy_Same(st, a) == [st |-> st, addr |-> a]

\* M.copy(): a new object with the rows of the one at a
copy(st, a) == [st |-> Append(st, st[a]), addr |-> Len(st) + 1]

\* M.row_del(port - 1) and M.col_del(port - 1) on the matrix at c, in place
row_col_del(st, c, port) ==
    [st EXCEPT ![c].m = <<<<@[Others(port)[1]][Others(port)[1]], @[Others(port)[1]][Others(port)[2]]>>,
                          <<@[Others(port)[2]][Others(port)[1]], @[Others(port)[2]][Others(port)[2]]>>>>]

\* V.row_del(port - 1) on the vector at c, in place
row_del(st, c, port) ==
    [st EXCEPT ![c].m = <<@[Others(port)[1]], @[Others(port)[2]]>>]

\* ThreePort.opencircuit on the three-port at a
St_opencircuit(st, a, port) ==
    Let(copy(st, st[a].net.M), LAMBDA Zc :
    Let(row_col_del(Zc.st, Zc.addr, port), LAMBDA s1 :
    Let(copy(s1, st[a].net.Vz), LAMBDA Vc :
    Let(row_del(Vc.st, Vc.addr, port), LAMBDA s2 :
    Let(TwoPortZModel([AsMx(s2[Zc.addr]) EXCEPT !.form = "Z"],
                      s2[Vc.addr].m[1], s2[Vc.addr].m[2]), LAMBDA net :
        StoreNet(s2, net))))))

\* ThreePort.shortcircuit on the three-port at a: self.Y is a new matrix
St_shortcircuit(st, a, port) ==
    Let(Det3(Deref(st, a).M), LAMBDA dt :
    IF EIsZero(dt) THEN [st |-> st, out |-> ValueError(ErrNotInvertible)]
    ELSE
    Let(Append(st, MatrixCell("Y3", Inv3Over(Deref(st, a).M, dt))), LAMBDA s0 :
    Let(copy(s0, Len(s0)), LAMBDA Yc :
    Let(row_col_del(Yc.st, Yc.addr, port), LAMBDA s1 :
    Let(copy(s1, st[a].net.Vz), LAMBDA Vc :
    Let(row_del(Vc.st, Vc.addr, port), LAMBDA s2 :
    Let(YMatrix_to([AsMx(s2[Yc.addr]) EXCEPT !.form = "Y"], "Z"), LAMBDA Z :
    Let(TwoPortZModel(Z, s2[Vc.addr].m[1], s2[Vc.addr].m[2]), LAMBDA net :
        StoreNet(s2, net)))))))))

\* the reads of self.Y and self.Isc of attach_parallel and of bridge on the
\* three-port at a, each a new object of the store: [st, Y, Isc], or the
\* error of an inverse that does not exist
St_Y_Isc(st, a) ==
    Let(Det3(Deref(st, a).M), LAMBDA dt :
    IF EIsZero(dt) THEN ValueError(ErrNotInvertible)
    ELSE
    Let(Inv3Over(Deref(st, a).M, dt), LAMBDA Ys :
    Let(Append(st, MatrixCell("Y3", Ys)), LAMBDA s0 :
    Let(Append(s0, MatrixCell("I", IscOf(Deref(st, a).Vz, Ys))), LAMBDA s1 :
        [st |-> s1, Y |-> Len(s0), Isc |-> Len(s1)]))))

\* ThreePort.attach_parallel on the three-port at a and the one-port at b:
\* Y and Isc are new objects, assigned to in place
St_attach_parallel(st, a, b, port) ==
    IF ~IsOnePort(Deref(st, b)) THEN [st |-> st, out |-> TypeError(ErrNotOnePort)]
    ELSE IF ~ThreePort_portcheck(port) THEN [st |-> st, out |-> TypeError(ErrConcatenate)]
    ELSE
    Let(St_Y_Isc(st, a), LAMBDA r :
    IF IsErr(r) THEN [st |-> st, out |-> r]
    ELSE
    Let([r.st EXCEPT ![r.Y].m[port][port] = ECancel(EAdd(@, OnePort_Y(Deref(st, b)))),
                     ![r.Isc].m[port] = ECancel(EAdd(@, OnePort_I(Deref(st, b))))],
        LAMBDA s1 :
    Let(ThreePortOf(s1[r.Y].m, s1[r.Isc].m), LAMBDA net :
        StoreNet(s1, net))))

\* the four assignments to Y3 of bridge, in their order, on the matrix at y3
St_bridge_assign(st, y3, Y2, p1, p2) ==
    [[[[st EXCEPT ![y3].m[p1][p1] = Y2.e11]
           EXCEPT ![y3].m[p2][p2] = Y2.e22]
           EXCEPT ![y3].m[p1][p2] = Y2.e12]
           EXCEPT ![y3].m[p2][p1] = Y2.e21]

\* ThreePort.bridge on the three-port at a and the one-port at b: Y3, Y
\* and Isc are new objects, assigned to in place
St_bridge(st, a, b, inport, outport) ==
    IF ~ThreePort_portcheck(inport) \/ ~ThreePort_portcheck(outport)
    THEN [st |-> st, out |-> TypeError(ErrConcatenate)]
    ELSE
    Let(Append(st, MatrixCell("Y3", <<<<EZero, EZero, EZero>>, <<EZero, EZero, EZero>>,
                                      <<EZero, EZero, EZero>>>>)), LAMBDA s0 :
    Let(St_bridge_assign(s0, Len(s0), BMatrix_to(SeriesTP(Deref(st, b)).M, "Y"),
                         inport, outport), LAMBDA s4 :
    Let(St_Y_Isc(s4, a), LAMBDA r :
    IF IsErr(r) THEN [st |-> st, out |-> r]
    ELSE
    Let([r.st EXCEPT ![r.Y].m = Add3(@, s4[Len(s0)].m)], LAMBDA s5 :
    Let([[s5 EXCEPT ![r.Isc].m[inport] = ECancel(ESub(@, OnePort_I(Deref(st, b))))]
             EXCEPT ![r.Isc].m[outport] = ECancel(EAdd(@, OnePort_I(Deref(st, b))))],
        LAMBDA s6 :
    Let(ThreePortOf(s6[r.Y].m, s6[r.Isc].m), LAMBDA net :
        StoreNet(s6, net)))))))

---------------------------------------------------------------------------
(* The object bench: a one-port, a two-port and a three-port are built,    *)
(* then composition methods are called on the networks of the store, the   *)
(* ones built by earlier calls included.  st0 is the store after the       *)
(* construction, stPrev the store before the last call, stPc the calls     *)
(* made and stOut what the last one returned: the address of a network or  *)
(* an error.                                                               *)

\* Composition calls in one run of the bench.
MaxOps == 2

RECURSIVE BuildStore(_, _)
BuildStore(nets, st) ==
    IF nets = <<>> THEN st ELSE BuildStore(Tail(nets), StoreNet(st, Head(nets)).st)

StOnePorts == {Thevenin(EOne, EOne)}
StTwoPorts == {TwoPortBModel(Mx("B", EInt(2), EOne, EOne, EOne), EOne, EOne)}
StThreePorts ==
    {ThreePort(<<<<EOne, EInt(2), EOne>>, <<EOne, EInt(2), EZero>>, <<EOne, EZero, EOne>>>>,
               <<EOne, EInt(2), EOne>>)}

\* the ports, and the pairs of ports, that the calls of the bench name
StPorts == {1, 3}
StBridges == {<<1, 2>>, <<2, 2>>}

InitObjects ==
    /\ store \in {BuildStore(<<T, P2, P3>>, <<>>) :
                     T \in StOnePorts, P2 \in StTwoPorts, P3 \in StThreePorts}
    /\ st0 = store
    /\ stPrev = store
    /\ stPc = <<>>
    /\ stOut = NoPort
    /\ OpIdle /\ MxIdle /\ ChIdle /\ PfIdle /\ TpIdle

\* the addresses of the networks of a kind
Addrs(kind) == {a \in 1..Len(store) : store[a].kind = kind}

\* the two-ports that hold a B matrix
BAddrs == {a \in Addrs("TwoPort") : store[a].net.cls \in BClasses}

\* the call has returned r
Returned(call, args, result) ==
    /\ Len(stPc) < MaxOps
    /\ \E r \in {result} : store' = r.st /\ stOut' = r.out
    /\ stPrev' = store
    /\ stPc' = Append(stPc, [call |-> call, args |-> args])
    /\ UNCHANGED <<st0, opVars, mxVars, chVars, pfVars, tpVars>>

\* a.series(b), a.parallel(b) for one-ports
StSeries ==
    \E a \in Addrs("OnePort"), b \in Addrs("OnePort"), f \in {"series", "parallel"} :
        Returned(f, <<a, b>>,
                 StoreNet(store, IF f = "series" THEN series(Deref(store, a), Deref(store, b))
                                 ELSE parallel(Deref(store, a), Deref(store, b))))

\* a.chain(b) for two-ports
StChain ==
    \E a \in BAddrs, b \in BAddrs :
        Returned("chain", <<a, b>>,
                 StoreNet(store, TwoPort_chain(Deref(store, a), Deref(store, b))))

\* a.load(b)
StLoad ==
    \E a \in BAddrs, b \in Addrs("OnePort") :
        Returned("load", <<a, b>>, StoreNet(store, TwoPort_load(Deref(store, a), Deref(store, b))))

\* a.attach_parallel(b, port)
StAttach ==
    \E a \in Addrs("ThreePort"), b \in Addrs("OnePort"), port \in StPorts :
        Returned("attach_parallel", <<a, b, port>>, St_attach_parallel(store, a, b, port))

\* a.bridge(b, inport, outport)
StBridge ==
    \E a \in Addrs("ThreePort"), b \in Addrs("OnePort"), ports \in StBridges :
        Returned("bridge", <<a, b, ports[1], ports[2]>>,
                 St_bridge(store, a, b, ports[1], ports[2]))

\* a.shortcircuit(port)
StShortcircuit ==
    \E a \in Addrs("ThreePort"), port \in StPorts :
        Returned("shortcircuit", <<a, port>>, St_shortcircuit(store, a, port))

\* a.opencircuit(port)
StOpencircuit ==
    \E a \in Addrs("ThreePort"), port \in StPorts :
        Returned("opencircuit", <<a, port>>, St_opencircuit(store, a, port))

NextObjects ==
    StSeries \/ StChain \/ StLoad \/ StAttach \/ StBridge \/ StShortcircuit \/ StOpencircuit

SpecObjects == InitObjects /\ [][NextObjects]_vars

---------------------------------------------------------------------------
(* Claims about objects, checked under SpecObjects.                        *)

\* every object of the store st is in the store unchanged
Kept(st) == \A a \in 1..Len(st) : store[a] = st[a]

\* the network at address n and its matrix and vector are not objects of st
NewNetwork(n, st) ==
    /\ n > Len(st) /\ n <= Len(store)
    /\ store[n].kind \in {"OnePort", "TwoPort", "ThreePort"}
    /\ store[n].kind \in {"TwoPort", "ThreePort"} => store[n].net.M > Len(st)
    /\ store[n].kind = "ThreePort" => store[n].net.Vz > Len(st)

(* C20: after any sequence of series, parallel, chain, load,               *)
(* attach_parallel, bridge, shortcircuit and opencircuit calls, every      *)
(* object that existed before a call, the networks and their matrices and  *)
(* vectors, is unchanged, and each call that returns returns a newly       *)
(* created network.                                                        *)
C20_OperandsKept ==
    stPc # <<>> =>
        /\ Kept(stPrev) /\ Kept(st0)
        /\ IsErr(stOut) \/ NewNetwork(stOut.addr, stPrev)

\* a one-port is attached to port 3 of the three-port, and port 1 of the
\* three-port that this returned is open-circuited
C20_Witness ==
    /\ Len(stPc) = 2
    /\ stPc[1].call = "attach_parallel" /\ stPc[1].args[3] = 3
    /\ stPc[2].call = "opencircuit" /\ stPc[2].args = <<Len(stPrev), 1>>
    /\ ~IsErr(stOut) /\ store[stOut.addr].net.cls = "TwoPortZModel"
    /\ Len(store[store[stPc[2].args[1]].net.M].m) = 3
    /\ Len(store[store[stPc[2].args[1]].net.Vz].m) = 3
    /\ Kept(st0)

---------------------------------------------------------------------------
(* Rational-function analysis.  An expression is a record: rf the ratio    *)
(* numer/denom that as_numer_denom returns and ex the exponent of its      *)
(* exponential factor, a polynomial in s (<<>> when it has none), so that  *)
(* the expression is rf * exp(ex).                                         *)

Expr(rf, ex) == [rf |-> rf, ex |-> ex]

ErrNotProduct == "Expression not a product of rational function and exponential"

\* _as_ratfun_delay: the factor exp(c0*s + c1) gives delay = -c0 and leaves
\* the constant exp(c1) in ratfun (k = c1); an exponential of any other
\* degree stays in ratfun, which then is no rational function unless the
\* exponent is a constant.
as_ratfun_delay(expr) ==
    IF Len(expr.ex) = 2
    THEN [ratfun |-> expr.rf, k |-> expr.ex[1], delay |-> -expr.ex[2]]
    ELSE IF Len(expr.ex) <= 1
    THEN [ratfun |-> expr.rf, k |-> PCoef(expr.ex, 1), delay |-> 0]
    ELSE Raise(ErrNotProduct)

\* Poly.div: c * a0 = q * b + r with deg r < deg b, for the a0 the division
\* started from; the quotient is q / c and the remainder r / c
RECURSIVE PolyDiv(_, _, _, _)
PolyDiv(a, b, q, c) ==
    IF Len(a) < Len(b) THEN [q |-> q, r |-> a, c |-> c]
    ELSE PolyDiv(PSub(PScale(PLead(b), a), PScale(PLead(a), PShift(b, Len(a) - Len(b)))),
                 b,
                 PAdd(PScale(PLead(b), q), PShift(<<PLead(a)>>, Len(a) - Len(b))),
                 c * PLead(b))

\* s - p
Linear(p) == <<-p, 1>>

RECURSIVE PPow(_, _)
PPow(p, k) == IF k = 0 THEN POne ELSE PMul(p, PPow(p, k - 1))

\* the number of times s - p divides d
RECURSIVE Multiplicity(_, _)
Multiplicity(d, p) ==
    IF Len(d) > 1 /\ PEval(d, p) = 0 THEN 1 + Multiplicity(PQuo(d, Linear(p)), p) ELSE 0

\* Poles are looked for among the integers MinPole .. MaxPole.
MaxPole == 1

MinPole == -MaxPole

PoleRange == MinPole..MaxPole

\* poles: sym.roots of the denominator, each root with its multiplicity
poles(x) ==
    IF Len(x.n) = 0 THEN <<>>
    ELSE [p \in {q \in PoleRange : Multiplicity(x.d, q) > 0} |-> Multiplicity(x.d, p)]

\* sym.diff: the derivative of n/d is (n'd - nd')/d^2
EDiff(x) ==
    ECancel(Frac(PSub(PMul(PDeriv(x.n), x.d), PMul(x.n, PDeriv(x.d))), PMul(x.d, x.d)))

RECURSIVE EDiffN(_, _)
EDiffN(x, m) == IF m = 0 THEN x ELSE EDiffN(EDiff(x), m - 1)

\* the value of x at s = p
EEval(x, p) == Frac(PConst(PEval(x.n, p)), PConst(PEval(x.d, p)))

\* sym.limit of a ratio at s = p: the value of the cancelled ratio
limit(x, p) == EEval(ECancel(x), p)

RECURSIVE factorial(_)
factorial(m) == IF m = 0 THEN 1 ELSE m * factorial(m - 1)

\* the residue of rank n at the pole p of multiplicity N, without the
\* division by factorial(m)
Residue_NoFactorial(expr, p, N, n) ==
    limit(EDiffN(ECancel(EMul(expr, EPoly(PPow(Linear(p), N)))), N - n), p)

\* residues, the body of the loop: the residue of rank n at the pole p of
\* multiplicity N
Residue(expr, p, N, n) ==
    IF N = 1 THEN limit(EMul(expr, EPoly(Linear(p))), p)
    ELSE EDiv(limit(EDiffN(ECancel(EMul(expr, EPoly(PPow(Linear(p), N)))), N - n), p),
              EInt(factorial(N - n)))

\* the lists F and R of residues, zipped: a term r / (s - p)^n for every pole
\* p of P and every rank n = 1 .. P[p]
Terms(expr, P) ==
    {[p |-> pn[1], n |-> pn[2], r |-> Residue(expr, pn[1], P[pn[1]], pn[2])] :
        pn \in {qm \in (DOMAIN P) \X (1..Len(expr.d)) : qm[2] <= P[qm[1]]}}

\* residues: N, D = _as_ratfun_parts(expr); Q, M = N.div(D); the poles and
\* residues of M / D
ResiduesOf(dm, D) ==
    [Q |-> Frac(dm.q, PConst(dm.c)),
     FR |-> Terms(Frac(dm.r, PScale(dm.c, D)), poles(Frac(dm.r, PScale(dm.c, D))))]

residues(x) == ResiduesOf(PolyDiv(x.n, x.d, PZero, 1), x.d)

\* N/D + (a/b)/f over the least common denominator, for g the greatest
\* integer dividing D and b and h the greatest polynomial dividing D and f
AddTermBy(N, D, a, b, f, g, h) ==
    EContent(PAdd(PScale(b \div g, PMul(N, PQuo(f, h))),
                  PScale(a, PDivInt(PQuo(D, h), g))),
             PScale(b, PMul(PDivInt(D, g), PQuo(f, h))))

\* expr + r / f for the term t = [p, n, r], f = (s - p)^n
AddTerm(expr, t) ==
    AddTermBy(expr.n, expr.d, PCoef(t.r.n, 1), PLead(t.r.d), PPow(Linear(t.p), t.n),
              Gcd(PContent(expr.d), Abs(PLead(t.r.d))),
              PGcd(expr.d, PPow(Linear(t.p), t.n)))

\* partfrac, the loop: expr = Q, then expr = expr + r / f for every term
RECURSIVE SumTerms(_, _)
SumTerms(FR, acc) ==
    IF FR = {} THEN acc
    ELSE SumTerms(FR \ {CHOOSE t \in FR : TRUE}, AddTerm(acc, CHOOSE t \in FR : TRUE))

\* partfrac: the recombined expression is rf * exp(k) * exp(-s * delay)
PartfracOf(rd, res) ==
    [rf |-> SumTerms(res.FR, ECancel(res.Q)), k |-> rd.k, delay |-> rd.delay,
     Q |-> res.Q, FR |-> res.FR]

partfrac(expr) ==
    IF IsErr(as_ratfun_delay(expr)) THEN as_ratfun_delay(expr)
    ELSE PartfracOf(as_ratfun_delay(expr), residues(as_ratfun_delay(expr).ratfun))

\* sympy's PolynomialError, which is no ValueError
PolynomialError(msg) == [err |-> msg, exc |-> "PolynomialError"]

ErrNotRational == "Expression not a rational function"
ErrGenerators == "contains an element of the set of generators"

\* expr.is_rational_function(): a constant exponential factor is a number
is_rational_function(expr) == Len(expr.ex) <= 1

\* The side of the fraction on which expr.as_numer_denom() leaves a
\* non-constant factor exp(ex): the denominator when ex is a monomial with
\* a negative coefficient, the numerator when it is one with a positive
\* coefficient; for a sum either, depending on the version of sympy.
ExpSides(expr) ==
    IF is_rational_function(expr) THEN {"none"}
    ELSE IF \A i \in 1..(Len(expr.ex) - 1) : expr.ex[i] = 0
    THEN IF PLead(expr.ex) < 0 THEN {"denom"} ELSE {"numer"}
    ELSE {"numer", "denom"}

\* expr.as_numer_denom(): each part is a polynomial p times exp(ex)
as_numer_denom(expr, side) ==
    [numer |-> [p |-> ECancel(expr.rf).n, ex |-> IF side = "numer" THEN expr.ex ELSE <<>>],
     denom |-> [p |-> ECancel(expr.rf).d, ex |-> IF side = "denom" THEN expr.ex ELSE <<>>]]

\* sym.Poly(part, var): fails when part holds an exponential of var
Poly(part) == IF Len(part.ex) > 1 THEN PolynomialError(ErrGenerators) ELSE [p |-> part.p]

\* sym.roots of a polynomial, among MinPole .. MaxPole
roots(P) ==
    IF IsErr(P) THEN P
    ELSE [roots |-> [p \in {q \in PoleRange : Multiplicity(P.p, q) > 0}
                           |-> Multiplicity(P.p, p)]]

\* poles(expr, var) and zeros(expr, var) as called from outside
poles_of(expr, side) == roots(Poly(as_numer_denom(expr, side).denom))
zeros_of(expr, side) == roots(Poly(as_numer_denom(expr, side).numer))

\* _as_ratfun_parts
as_ratfun_parts(expr) ==
    IF ~is_rational_function(expr) THEN ValueError(ErrNotRational)
    ELSE [N |-> expr.rf.n, D |-> expr.rf.d]

\* residues(expr, var) as called from outside
residues_of(expr) ==
    IF IsErr(as_ratfun_parts(expr)) THEN as_ratfun_parts(expr) ELSE residues(expr.rf)

---------------------------------------------------------------------------
(* The rational-function bench: an expression is built (pfExpr) and one of *)
(* partfrac, poles, zeros, residues is called on it; pfPc is the call made *)
(* and pfOut what it returned: for partfrac the recombined expression with *)
(* its quotient Q and its terms FR, for poles and zeros the roots, for     *)
(* residues Q and FR, or an error.                                         *)

\* The denominator has at most MaxDeg roots, counted with multiplicity.
MaxDeg == 3

\* 1, s + 1, 10 s^2 + 1, s^3 - s, 2 s^4 + 1 and 0
PfNumers == {<<1>>, <<1, 1>>, <<1, 0, 10>>, <<0, -1, 0, 1>>, <<1, 0, 0, 0, 2>>, <<>>}

\* no exponential factor, exp(-s), exp(1 - 2 s), exp(s^2)
PfExponents == {<<>>, <<0, -1>>, <<1, -2>>, <<0, 0, 1>>}

RECURSIVE DegreeFrom(_, _)
DegreeFrom(mult, p) == IF p > MaxPole THEN 0 ELSE mult[p] + DegreeFrom(mult, p + 1)

\* the product of (s - p)^mult[p]
RECURSIVE DenomFrom(_, _)
DenomFrom(mult, p) ==
    IF p > MaxPole THEN POne
    ELSE PMul(PPow(Linear(p), mult[p]), DenomFrom(mult, p + 1))

PfDenoms ==
    {PScale(lc, DenomFrom(mult, MinPole)) :
        lc \in {1, 2},
        mult \in {f \in [PoleRange -> 0..MaxDeg] : DegreeFrom(f, MinPole) <= MaxDeg}}

\* Poly.LC(): the leading coefficient, 0 for the zero polynomial
LC(P) == IF Len(P) = 0 THEN 0 ELSE PLead(P)

\* the product of one factor s - r for every key r of the root mapping rts
OneFactorPerKey(rts) ==
    DenomFrom([p \in PoleRange |-> IF p \in DOMAIN rts THEN 1 ELSE 0], MinPole)

\* PZK, after _as_ratfun_delay and _as_ratfun_parts: K = N.LC() / D.LC(),
\* times exp(s * delay); the list comprehensions over the mappings zeros
\* and poles give one factor per key
PZKOf(rd, N, D) ==
    [rf |-> Frac(PScale(LC(N), OneFactorPerKey(roots([p |-> N]).roots)),
                 PScale(LC(D), OneFactorPerKey(roots([p |-> D]).roots))),
     ex |-> PTrim(<<rd.k, rd.delay>>)]

PZK(expr) ==
    IF IsErr(as_ratfun_delay(expr)) THEN as_ratfun_delay(expr)
    ELSE PZKOf(as_ratfun_delay(expr), as_ratfun_delay(expr).ratfun.n,
               as_ratfun_delay(expr).ratfun.d)

\* ZPK
ZPK(expr) == PZK(expr)

InitPartfrac ==
    /\ pfExpr \in {Expr(Frac(n, d), ex) : n \in PfNumers, d \in PfDenoms, ex \in PfExponents}
    /\ pfPc = "built"
    /\ pfOut = NoPort
    /\ OpIdle /\ MxIdle /\ ChIdle /\ TpIdle /\ StIdle

\* partfrac(pfExpr, s)
Partfrac ==
    /\ pfPc = "built"
    /\ pfOut' = partfrac(pfExpr)
    /\ pfPc' = "partfrac"
    /\ UNCHANGED <<pfExpr, opVars, mxVars, chVars, tpVars, stVars>>

\* poles(pfExpr, s)
CallPoles ==
    /\ pfPc = "built"
    /\ \E side \in ExpSides(pfExpr) : pfOut' = poles_of(pfExpr, side)
    /\ pfPc' = "poles"
    /\ UNCHANGED <<pfExpr, opVars, mxVars, chVars, tpVars, stVars>>

\* zeros(pfExpr, s)
CallZeros ==
    /\ pfPc = "built"
    /\ \E side \in ExpSides(pfExpr) : pfOut' = zeros_of(pfExpr, side)
    /\ pfPc' = "zeros"
    /\ UNCHANGED <<pfExpr, opVars, mxVars, chVars, tpVars, stVars>>

\* residues(pfExpr, s)
CallResidues ==
    /\ pfPc = "built"
    /\ pfOut' = residues_of(pfExpr)
    /\ pfPc' = "residues"
    /\ UNCHANGED <<pfExpr, opVars, mxVars, chVars, tpVars, stVars>>

\* PZK(pfExpr, s), ZPK(pfExpr, s)
CallPZK ==
    /\ pfPc = "built"
    /\ \E f \in {"PZK", "ZPK"} :
          /\ pfOut' = IF f = "PZK" THEN PZK(pfExpr) ELSE ZPK(pfExpr)
          /\ pfPc' = f
    /\ UNCHANGED <<pfExpr, opVars, mxVars, chVars, tpVars, stVars>>

NextPartfrac == Partfrac \/ CallPoles \/ CallZeros \/ CallResidues \/ CallPZK

SpecPartfrac == InitPartfrac /\ [][NextPartfrac]_vars

---------------------------------------------------------------------------
(* Claims about the rational-function analysis, checked under              *)
(* SpecPartfrac.                                                           *)

\* the ranks of the terms of pfOut at the pole p
Ranks(p) == {t.n : t \in {u \in pfOut.FR : u.p = p}}

C15_NotRationalRejected ==
    (pfPc \in {"poles", "zeros", "residues"} /\ ~is_rational_function(pfExpr))
        => pfOut = ValueError(ErrNotRational)

\* the part of C15 that holds: residues fails with that error; poles and
\* zeros fail with a PolynomialError or return roots
ResiduesRejects ==
    ~is_rational_function(pfExpr) =>
        /\ pfPc = "residues" => pfOut = ValueError(ErrNotRational)
        /\ pfPc \in {"poles", "zeros"}
              => pfOut = PolynomialError(ErrGenerators) \/ ~IsErr(pfOut)

\* every root of the polynomial P is an integer of PoleRange
SplitsInRange(P) == Len(P) = 0 \/ DegreeFrom([p \in PoleRange |-> Multiplicity(P, p)], MinPole) = Len(P) - 1

\* the product of (s - r)^m for every root r of P of multiplicity m
FactorPerRoot(P) == DenomFrom([p \in PoleRange |-> Multiplicity(P, p)], MinPole)

(* C17: for a rational expression without delay whose zeros and poles are  *)
(* all found, PZK and ZPK return an expression algebraically equal to it:  *)
(* K, the ratio of the leading coefficients of numerator and denominator,  *)
(* times one factor (s - z) per zero and one factor 1/(s - p) per pole,    *)
(* each root repeated as many times as its multiplicity.                   *)
C17_PZKEqual ==
    (pfPc \in {"PZK", "ZPK"} /\ pfExpr.ex = <<>>
       /\ SplitsInRange(pfExpr.rf.n) /\ SplitsInRange(pfExpr.rf.d))
        => /\ ~IsErr(pfOut)
           /\ EEq(pfOut.rf, pfExpr.rf)
           /\ EEq(pfOut.rf, Frac(PScale(LC(pfExpr.rf.n), FactorPerRoot(pfExpr.rf.n)),
                                 PScale(LC(pfExpr.rf.d), FactorPerRoot(pfExpr.rf.d))))

\* the part of C17 that holds: PZK is equal to the expression when no zero
\* and no pole is repeated
PZKEqualSimpleRoots ==
    (pfPc \in {"PZK", "ZPK"} /\ pfExpr.ex = <<>>
       /\ SplitsInRange(pfExpr.rf.n) /\ SplitsInRange(pfExpr.rf.d)
       /\ \A p \in PoleRange : Multiplicity(pfExpr.rf.n, p) <= 1
                               /\ Multiplicity(pfExpr.rf.d, p) <= 1)
        => ~IsErr(pfOut) /\ EEq(pfOut.rf, pfExpr.rf)

\* PZK was called on a rational function times exp(c0*s + c1), c0 # 0, whose
\* zeros and poles are simple and within MinPole .. MaxPole
PZKOfDelayed ==
    /\ pfPc \in {"PZK", "ZPK"} /\ Len(pfExpr.ex) = 2
    /\ SplitsInRange(pfExpr.rf.n) /\ SplitsInRange(pfExpr.rf.d)
    /\ \A p \in PoleRange : Multiplicity(pfExpr.rf.n, p) <= 1
                            /\ Multiplicity(pfExpr.rf.d, p) <= 1

\* the exponent c0*s + c1 of the exponential factor of what partfrac returns
ExponentOf(pf) == PTrim(<<pf.k, -pf.delay>>)

(* C29: for expr = R(s) * exp(c0*s + c1) with R rational, PZK and partfrac *)
(* both carry the factor exp(c0*s), with exp(c1) in the rational part, so  *)
(* that PZK(expr, s) is algebraically equal to partfrac(expr, s) and to    *)
(* expr.                                                                   *)
C29_DelayCarried ==
    PZKOfDelayed
        => /\ ~IsErr(pfOut)
           /\ pfOut.ex = pfExpr.ex
           /\ pfOut.ex = ExponentOf(partfrac(pfExpr))
           /\ EEq(pfOut.rf, pfExpr.rf)
           /\ EEq(pfOut.rf, partfrac(pfExpr).rf)

\* the part that holds: the rational parts agree, partfrac carries
\* exp(c0*s + c1), and PZK carries exp(-c0*s + c1)
PZKDelayNegated ==
    PZKOfDelayed
        => /\ ~IsErr(pfOut)
           /\ EEq(pfOut.rf, pfExpr.rf)
           /\ EEq(pfOut.rf, partfrac(pfExpr).rf)
           /\ ExponentOf(partfrac(pfExpr)) = pfExpr.ex
           /\ pfOut.ex = <<pfExpr.ex[1], -pfExpr.ex[2]>>

=============================================================================
